---- MODULE Spec2Model ----
(***************************************************************************)
(* Model of the ALSA output back end of squeezelite (src/output_alsa.c):   *)
(* the output thread (output_thread), the device session (alsa_open,       *)
(* alsa_close, pcm_probe, _write_frames), shutdown (output_close_alsa) and *)
(* the volume path (set_volume, set_mixer, mixer_init_alsa).               *)
(* Every ALSA call is one step of the thread whose result is chosen by the *)
(* device, i.e. nondeterministically.                                      *)
(***************************************************************************)
EXTENDS Integers, Sequences, FiniteSets, TLC

VARIABLES
    cfg,                 \* configuration fixed by output_init_alsa
    dev,                 \* what the sound device can answer to alsa_open
    running,             \* static bool running
    output_state,        \* output.state: "OFF" or "ON" (any state but OUTPUT_OFF)
    current_sample_rate, \* output.current_sample_rate
    error_opening,       \* output.error_opening
    mutex,               \* owner of outputbuf->mutex
    pcmp,                \* static snd_pcm_t *pcmp: "NULL" or "H"
    pcm_open,            \* the PCM handle last returned by snd_pcm_open is open
    alsa_device,         \* alsa.device: "", "hw", "plughw", "other", "toolong"
    alsa_rate,           \* alsa.rate
    alsa_period_size,    \* alsa.period_size
    alsa_buffer_size,    \* alsa.buffer_size
    alsa_mmap,           \* alsa.mmap
    alsa_format,         \* alsa.format ("0" when not set)
    write_buf,           \* frame capacity of alsa.write_buf, 0 when NULL
    recover_count,       \* static unsigned recover_count of _write_frames
    pc,                  \* position of the output thread
    start,               \* output_thread local
    output_off,          \* output_thread local
    probe_device,        \* output_thread local
    avail,               \* output_thread local
    aoCall,              \* which call of alsa_open is active: "none", "reopen", "main"
    aoResult,            \* return value of the last alsa_open: 0 or -1
    aoOpens,             \* snd_pcm_open calls made by the current alsa_open
    hwp_resample,        \* hw_params: resampling enabled by set_rate_resample
    hwp_rate,            \* hw_params: rate accepted by set_rate (0 when rejected)
    hwp_sizes,           \* hw_params: the period and buffer requests made so far
    dev_mmap,            \* the device accepts memory-mapped access in this open
    dev_fmts,            \* the formats the device accepts in this open
    of_size,             \* _output_frames: frames still to hand to write_cb
    of_wrote,            \* _output_frames: frames written so far
    out_frames,          \* _write_frames: out_frames
    wres,                \* _write_frames: return value
    w_frames,            \* _write_frames: w, the count the device accepted
    good_since_fail,     \* a write succeeded since recover_count left 0
    cpc,                 \* position of output_close_alsa
    freed,               \* how often each resource was freed / closed
    hwcall,              \* the hardware call made by the last thread step
    off_iter,            \* the loop iteration began with a session open at the
                         \* requested rate and output.state OFF, and neither
                         \* the state nor the rate was changed since
    xfer_iter,           \* the loop iteration has reached the LOCK before the transfer
    volume_mixer_name,   \* alsa.volume_mixer_name is not NULL
    mixer_linear,        \* alsa.mixer_linear
    linear_dB_internal,  \* alsa.linear_dB_internal
    mixer_unmute,        \* output_init_alsa argument mixer_unmute
    vin,                 \* the <<left, right>> pairs the caller of set_volume may pass
    mixer_mindb,         \* alsa.mixer_mindb
    mixer_maxdb,         \* alsa.mixer_maxdb
    mixer_handle,        \* alsa.mixer_handle: "NULL" or "M"
    mixer_open,          \* a mixer opened by snd_mixer_open is still open
    gainL,               \* output.gainL
    gainR,               \* output.gainR
    gainL_by,            \* the set_volume call (its parity) that wrote gainL
    gainR_by,            \* the set_volume call (its parity) that wrote gainR
    vpc,                 \* position of the caller of set_volume
    vcall,               \* parity of the number of set_volume calls made
    left,                \* set_volume argument
    right,               \* set_volume argument
    sv_l,                \* set_volume local l
    sv_r,                \* set_volume local r
    setmin,              \* set_volume local
    tbl_index,           \* <<i>> when the call read gscale[i] / gscalenew[i] at
                         \* the computed index lower - 1, <<>> otherwise
    mixer_db,            \* <<v>> when the call passed v to
                         \* snd_mixer_selem_set_playback_dB_all, <<>> otherwise
    mixer_by,            \* who called set_mixer last: "none", "init", "set_volume"
    ipc,                 \* position of output_init_alsa
    mixer_failed,        \* the step of mixer_init_alsa that failed, 0 if none
    tpc,                 \* position of test_open
    test_dev,            \* the rates the probed device supports
    test_pcm,            \* the device opened by test_open (its pcm) is open
    userdef_rates,       \* test_open argument
    rates,               \* test_open argument: the caller's array of rates
    test_i,              \* test_open local i (index into ref, from 1)
    test_ind,            \* test_open local ind (index into rates, from 1)
    test_ret             \* what test_open returned: "none", "true", "false"

vars == <<cfg, dev, running, output_state, current_sample_rate, error_opening, mutex,
          pcmp, pcm_open, alsa_device, alsa_rate, alsa_period_size,
          alsa_buffer_size, alsa_mmap, alsa_format, write_buf, recover_count,
          pc, start, output_off, probe_device, avail, aoCall, aoResult, aoOpens,
          hwp_resample, hwp_rate, hwp_sizes, dev_mmap, dev_fmts,
          of_size, of_wrote, out_frames, wres, w_frames,
          good_since_fail,
          cpc, freed, hwcall, off_iter, xfer_iter,
          volume_mixer_name, mixer_linear, linear_dB_internal, mixer_unmute, vin,
          mixer_mindb, mixer_maxdb, mixer_handle, mixer_open,
          gainL, gainR, gainL_by, gainR_by, vpc, vcall,
          left, right, sv_l, sv_r, setmin, tbl_index, mixer_db, mixer_by, ipc,
          mixer_failed,
          tpc, test_dev, test_pcm, userdef_rates, rates, test_i, test_ind, test_ret>>

ctlv == <<output_state, current_sample_rate>>
sessv == <<pcmp, pcm_open>>
alsav == <<alsa_device, alsa_rate, alsa_period_size, alsa_buffer_size,
           alsa_mmap, alsa_format, write_buf>>
localv == <<start, output_off, probe_device, avail>>
aov == <<aoCall, aoResult, aoOpens, hwp_resample, hwp_rate, hwp_sizes, dev_mmap,
        dev_fmts>>
wv == <<of_size, of_wrote, out_frames, wres, w_frames, recover_count,
       good_since_fail>>
closev == <<cpc, freed>>
modev == <<volume_mixer_name, mixer_linear, linear_dB_internal, mixer_unmute, vin>>
mixv == <<mixer_mindb, mixer_maxdb, mixer_handle, mixer_open>>
gainv == <<gainL, gainR, gainL_by, gainR_by>>
argv == <<left, right, sv_l, sv_r, setmin, tbl_index>>
cmdv == <<mixer_db, mixer_by>>
volv == <<modev, mixv, gainv, argv, cmdv, vpc, vcall, ipc, mixer_failed>>
iterv == <<off_iter, xfer_iter>>
testv == <<tpc, test_dev, test_pcm, userdef_rates, rates, test_i, test_ind, test_ret>>

----------------------------------------------------------------------------
(* Bounds and program constants *)

MaxAvail == 5            \* largest frame count the driver reports as available
RECOVER_LIMIT == 10      \* recover_count >= 10 closes the session
MAX_DEVICE_LEN == 128

Rates == {44100, 48000}
fmts == <<"S32_LE", "S24_LE", "S24_3LE", "S16_LE">>
NATIVE_FORMAT == "S32_LE"
Devices == {"hw", "other", "toolong"}

\* unsigned alsa_buffer = ALSA_BUFFER_TIME; unsigned alsa_period = ALSA_PERIOD_COUNT;
ALSA_BUFFER_TIME == 40
ALSA_PERIOD_COUNT == 4

\* configurations: output.device, alsa.reopen, whether a mixer device is
\* given (the default is none), output.buffer and output.period
Configs ==
    [device : Devices, reopen : BOOLEAN, mixer_device : {FALSE},
     buffer : {ALSA_BUFFER_TIME}, period : {ALSA_PERIOD_COUNT}]

\* values of output.buffer and output.period around the limits alsa_open
\* tests them against, with the defaults and a size in frames
BufferInputs == {ALSA_BUFFER_TIME, 499, 500, 4096}
PeriodInputs == {ALSA_PERIOD_COUNT, 49, 50, 1024}
SizePairs == {<<ALSA_BUFFER_TIME, ALSA_PERIOD_COUNT>>, <<499, 50>>, <<500, 49>>,
              <<4096, 1024>>}

\* one device, opened twice at each open, with each of the pairs of a buffer
\* and a period value
SizeConfigs ==
    {c \in [device : {"other"}, reopen : {TRUE}, mixer_device : {FALSE},
            buffer : BufferInputs, period : PeriodInputs] :
        <<c.buffer, c.period>> \in SizePairs}

\* a sound device: the <<period_size, buffer_size>> pairs it negotiates and
\* the sets of sample formats it accepts (it may answer differently per open)
MainDevice == [sizes |-> {<<2, 4>>}, fmtsets |-> {{"S16_LE"}, {}}]

\* hwcall when the step made no hardware call; otherwise hwcall is
\* <<the C function making the call, the ALSA function called>>
NoHw == <<"none", "none">>

min(a, b) == IF a < b THEN a ELSE b

\* strlen(device) for the three kinds of device name of the model
DeviceLen(d) == IF d = "toolong" THEN MAX_DEVICE_LEN ELSE 6

----------------------------------------------------------------------------
(* Constants and tables of the volume path *)

FIXED_ONE == 65536
MINVOL_DB == -72
SND_CTL_TLV_DB_GAIN_MUTE == -9999999

\* const long gscale[101]; gscale[i] of the code is gscale[i + 1] here
gscale == <<
    65536, 61952, 58624, 55296, 52224, 49408, 46592, 44032, 41728, 39424,
    37120, 35072, 33024, 31232, 29696, 27904, 26368, 24832, 23552, 22272,
    20992, 19968, 18688, 17664, 16640, 15872, 14848, 14080, 13312, 12544,
    12032, 11264, 10752, 9984, 9472, 8960, 8448, 7936, 7680, 7168,
    6656, 6400, 6144, 5632, 5376, 5120, 4864, 4608, 4352, 4096,
    3840, 3584, 3328, 3328, 3072, 2816, 2816, 2560, 2304, 2304,
    2048, 2050, 1937, 1830, 1729, 1634, 1543, 1458, 1378, 1302,
    1230, 1162, 1098, 1037, 980, 926, 781, 658, 555, 468,
    395, 333, 281, 237, 200, 168, 142, 120, 101, 85,
    72, 61, 51, 43, 36, 31, 26, 22, 18, 16,
    0 >>

\* const long gscalenew[101]; gscalenew[i] of the code is gscalenew[i + 1] here
gscalenew == <<
    65536, 58409, 52057, 46396, 41350, 36854, 32768, 29274, 26090, 23253,
    20724, 18471, 16384, 14672, 13076, 11654, 10387, 9257, 8192, 7353,
    6554, 5841, 5206, 4640, 4096, 3685, 3285, 2927, 2609, 2325,
    2048, 1847, 1646, 1467, 1308, 1165, 1024, 926, 825, 735,
    655, 584, 512, 464, 414, 369, 328, 293, 256, 233,
    207, 185, 165, 147, 128, 117, 104, 93, 83, 74,
    64, 58, 52, 46, 41, 37, 32, 29, 26, 23,
    21, 18, 16, 0, 0, 0, 0, 0, 0, 0,
    0, 0, 0, 0, 0, 0, 0, 0, 0, 0,
    0, 0, 0, 0, 0, 0, 0, 0, 0, 0,
    0 >>

\* Log10Steps[k] is the least left with floor(20 * log10(left / 65536.0F))
\* >= k - 97; the value is -97 for left = 1
Log10Steps == <<
    2, 2, 2, 2, 2, 2, 3, 3, 3, 3,
    4, 4, 5, 5, 6, 6, 7, 8, 9, 10,
    11, 12, 14, 15, 17, 19, 21, 24, 27, 30,
    33, 37, 42, 47, 53, 59, 66, 74, 83, 93,
    104, 117, 131, 147, 165, 185, 208, 233, 261, 293,
    329, 369, 414, 464, 521, 585, 656, 736, 826, 926,
    1039, 1166, 1308, 1468, 1647, 1848, 2073, 2326, 2610, 2928,
    3285, 3686, 4136, 4640, 5206, 5841, 6554, 7354, 8251, 9258,
    10387, 11655, 13077, 14672, 16462, 18471, 20725, 23254, 26091, 29274,
    32846, 36854, 41351, 46396, 52058, 58410, 65536, 73533, 82505, 92573,
    103868, 116542, 130762 >>

\* floor(20 * log10(left / 65536.0F)) for 1 <= v < 146719
DirectDb(v) == -97 + Cardinality({k \in 1 .. Len(Log10Steps) : Log10Steps[k] <= v})

\* a / b of C for b > 0: the quotient is truncated towards zero
CDiv(a, b) == IF a >= 0 THEN a \div b ELSE -((-a) \div b)

\* for (i = 0; i < 101; i++) if (gscale[i] < left) { lower = i; break; }
\* with lower initialised to 0
FirstBelow(v) ==
    LET S == {i \in 0 .. 100 : gscale[i + 1] < v}
    IN  IF S = {} THEN 0 ELSE CHOOSE i \in S : \A j \in S : i <= j

\* what a read of gscale[-1] or gscalenew[-1], the long before the array,
\* may yield
Garbage == {-1, 0, 99999}

\* the steps of gscale looked at: the loud end, the part with repeated and
\* swapped entries (3328, 2816, 2304, 2048 / 2050), and the quiet end
Brackets == {1, 2, 3} \cup (52 .. 63) \cup {99, 100}

\* the volume values tried with a table: 0, 1, both sides of each of these
\* steps, and values above the table's maximum; left and right are equal
VolInputs ==
    {<<v, v>> : v \in {0, 1, 131072} \cup {gscale[i] : i \in Brackets}
                        \cup {gscale[i] + 1 : i \in Brackets}}

\* the values tried without a table, left and right independent
PassInputs == {0, 1, FIXED_ONE, 131072} \X {0, 1, FIXED_ONE, 131072}

\* the dB ranges (in 1/100 dB) a mixer element may report
MixerRanges == {<<-7200, 0>>, <<-7250, 0>>, <<-5000, 600>>,
                <<SND_CTL_TLV_DB_GAIN_MUTE, 0>>}

\* the volume modes: hardware mixer or software gain, and the conversion
\* used; mixer_linear and mixer_unmute matter only with a mixer
\* a sound device that negotiates a larger period and buffer in some opens
\* (as it does at a higher rate for a buffer given as a time) and accepts
\* another sample format in some opens
VaryingDevice == [sizes |-> {<<1, 2>>, <<3, 4>>},
                  fmtsets |-> {{"S16_LE"}, {"S32_LE"}}]

VolModes ==
    {m \in [mixer : BOOLEAN, linear : BOOLEAN, curve : BOOLEAN, unmute : BOOLEAN] :
        ~m.mixer => (~m.linear /\ ~m.unmute)}

----------------------------------------------------------------------------
\* the state output_init_alsa leaves when it has started the thread, for a
\* configuration of C and a device of D
InitWith(C, D) ==
    /\ cfg \in C
    /\ dev \in D
    /\ running = TRUE
    /\ output_state \in {"OFF", "ON"}
    /\ current_sample_rate \in Rates
    /\ error_opening = FALSE
    /\ mutex = "none"
    /\ pcmp = "NULL"
    /\ pcm_open = FALSE
    /\ alsa_device = ""
    /\ alsa_rate = 0
    /\ alsa_period_size = 0
    /\ alsa_buffer_size = 0
    /\ alsa_mmap \in BOOLEAN
    /\ alsa_format = "0"
    /\ write_buf = 0
    /\ recover_count = 0
    /\ pc = "top"
    /\ start = TRUE
    /\ output_off = (output_state = "OFF")
    /\ probe_device \in BOOLEAN
    /\ avail = 0
    /\ aoCall = "none"
    /\ aoResult = 0
    /\ aoOpens = 0
    /\ hwp_resample = FALSE
    /\ hwp_rate = 0
    /\ hwp_sizes = <<>>
    /\ dev_mmap = FALSE
    /\ dev_fmts = {}
    /\ of_size = 0
    /\ of_wrote = 0
    /\ out_frames = 0
    /\ wres = 0
    /\ w_frames = 0
    /\ good_since_fail = FALSE
    /\ cpc = "idle"
    /\ freed = [r \in {"write_buf", "ctl", "mixer_ctl"} |-> 0]
    /\ hwcall = NoHw
    /\ off_iter = FALSE
    /\ xfer_iter = FALSE

\* the volume path before the mixer is set up, for a mode of M and callers
\* passing values of I: memset(&output, 0, sizeof(output)); alsa.mixer_handle
\* = NULL; alsa.volume_mixer_name = volume_mixer_name; ...
VolInitWith(M, I) ==
    /\ \E m \in M : /\ volume_mixer_name = m.mixer
                    /\ mixer_linear = m.linear
                    /\ linear_dB_internal = m.curve
                    /\ mixer_unmute = m.unmute
    /\ vin = I
    /\ mixer_mindb = 0 /\ mixer_maxdb = 0
    /\ mixer_handle = "NULL" /\ mixer_open = FALSE
    /\ gainL = 0 /\ gainR = 0 /\ gainL_by = 0 /\ gainR_by = 0
    /\ vpc = "idle" /\ vcall = 0
    /\ left = 0 /\ right = 0 /\ sv_l = 0 /\ sv_r = 0 /\ setmin = FALSE
    /\ tbl_index = <<>>
    /\ mixer_db = <<>> /\ mixer_by = "none"
    /\ mixer_failed = 0

\* the candidate rates test_open tries, highest first, ended by 0
TEST_RATES == <<192000, 96000, 48000, 44100, 0>>

\* the caller's array when the user gave the rates
UserRates == <<48000, 44100, 0, 0, 0>>

\* the caller's array when the user gave none
NoRates == <<0, 0, 0, 0, 0>>

\* test_open has returned true for rates given by the user
TestDone ==
    /\ tpc = "t_ret"
    /\ test_dev = {}
    /\ test_pcm = FALSE
    /\ userdef_rates = TRUE
    /\ rates = UserRates
    /\ test_i = 0
    /\ test_ind = 0
    /\ test_ret = "true"

\* no mixer, gains passed through
SoftwareMode == [mixer |-> FALSE, linear |-> FALSE, curve |-> FALSE, unmute |-> FALSE]

\* the output thread and shutdown: the player was started without a volume
\* mixer and set_volume is not called
Init ==
    /\ InitWith(Configs, {MainDevice})
    /\ VolInitWith({SoftwareMode}, {})
    /\ ipc = "done"
    /\ TestDone

----------------------------------------------------------------------------
(* The output thread: output_thread().  Each action is one step of the     *)
(* thread; a step that makes a hardware call records it in hwcall.         *)

\* no thread step writes the configuration, the flags written by other
\* threads, or the state of output_close_alsa
ThreadFrame == UNCHANGED <<cfg, dev, running, ctlv, closev, iterv, volv, testv>>

\* while (running) { ... while (output_off) ... if (probe_device) ...
LoopTop ==
    /\ pc = "top"
    /\ pc' = IF ~running THEN "done"
             ELSE IF output_off THEN "off_sleep"
             ELSE IF probe_device THEN "probing"
             ELSE "open_chk"
    /\ avail' = 0
    /\ hwcall' = NoHw
    /\ off_iter' = (running /\ ~output_off /\ output_state = "OFF"
                      /\ pcmp # "NULL" /\ pcm_open
                      /\ alsa_rate = current_sample_rate)
    /\ xfer_iter' = FALSE
    /\ UNCHANGED <<cfg, dev, running, ctlv, closev, volv, testv>>
    /\ UNCHANGED <<error_opening, mutex, sessv, alsav, start, output_off,
                   probe_device, aov, wv>>

\* usleep(100000); LOCK;
OffLock ==
    /\ pc = "off_sleep"
    /\ mutex = "none"
    /\ mutex' = "thread"
    /\ pc' = "off_read"
    /\ hwcall' = NoHw
    /\ ThreadFrame
    /\ UNCHANGED <<error_opening, sessv, alsav, localv, aov, wv>>

\* output_off = (output.state == OUTPUT_OFF); UNLOCK;
OffRead ==
    /\ pc = "off_read"
    /\ output_off' = (output_state = "OFF")
    /\ mutex' = "none"
    /\ pc' = "off_chk"
    /\ hwcall' = NoHw
    /\ ThreadFrame
    /\ UNCHANGED <<error_opening, sessv, alsav, start, probe_device, avail, aov, wv>>

\* if (!running) return 0;  and the while (output_off) test
OffCheck ==
    /\ pc = "off_chk"
    /\ pc' = IF ~running THEN "done"
             ELSE IF output_off THEN "off_sleep"
             ELSE IF probe_device THEN "probing"
             ELSE "open_chk"
    /\ hwcall' = NoHw
    /\ ThreadFrame
    /\ UNCHANGED <<error_opening, mutex, sessv, alsav, localv, aov, wv>>

\* while (!pcm_probe(output.device)) sleep(5);  probe_device = false;
\* pcm_probe opens and closes a PCM of its own; the device decides the result
Probe ==
    /\ pc = "probing"
    /\ \E ok \in BOOLEAN :
         /\ pc' = IF ok THEN "open_chk" ELSE "probe_sleep"
         /\ probe_device' = IF ok THEN FALSE ELSE probe_device
    /\ hwcall' = <<"pcm_probe", "snd_pcm_open">>
    /\ ThreadFrame
    /\ UNCHANGED <<error_opening, mutex, sessv, alsav, start, output_off, avail,
                   aov, wv>>

\* sleep(5) in the probing loop, then the loop condition again
ProbeSleep ==
    /\ pc = "probe_sleep"
    /\ pc' = "probing"
    /\ hwcall' = NoHw
    /\ ThreadFrame
    /\ UNCHANGED <<error_opening, mutex, sessv, alsav, localv, aov, wv>>

\* OpenCheck without the comparison of the rates
OpenCheckHandleOnly ==
    /\ pc = "open_chk"
    /\ pc' = IF pcmp = "NULL" THEN "open_lock" ELSE "q_state"
    /\ hwcall' = NoHw
    /\ ThreadFrame
    /\ UNCHANGED <<error_opening, mutex, sessv, alsav, localv, aov, wv>>

\* if (!pcmp || alsa.rate != output.current_sample_rate)
OpenCheck ==
    /\ pc = "open_chk"
    /\ pc' = IF pcmp = "NULL" \/ alsa_rate # current_sample_rate
             THEN "open_lock" ELSE "q_state"
    /\ hwcall' = NoHw
    /\ ThreadFrame
    /\ UNCHANGED <<error_opening, mutex, sessv, alsav, localv, aov, wv>>

\* LOCK; then the first call of alsa_open (the extra one when alsa.reopen)
OpenLock ==
    /\ pc = "open_lock"
    /\ mutex = "none"
    /\ mutex' = "thread"
    /\ aoCall' = IF cfg.reopen THEN "reopen" ELSE "main"
    /\ pc' = "ao_start"
    /\ hwcall' = NoHw
    /\ ThreadFrame
    /\ UNCHANGED <<error_opening, sessv, alsav, localv, aoResult, aoOpens,
                   hwp_resample, hwp_rate, hwp_sizes, dev_mmap, dev_fmts, wv>>

----------------------------------------------------------------------------
(* alsa_open(output.device, output.current_sample_rate, output.buffer,     *)
(* output.period), called by the thread with the mutex held.  The model    *)
(* follows the build without DSD.                                          *)

\* return from alsa_open with value r
AoReturn(r) == aoResult' = r /\ pc' = "open_ret"

\* if (pcmp) alsa_close();
AoCloseOld ==
    /\ pc = "ao_start"
    /\ IF pcmp # "NULL"
       THEN pcm_open' = FALSE /\ hwcall' = <<"alsa_open", "snd_pcm_close">>
       ELSE pcm_open' = pcm_open /\ hwcall' = NoHw
    /\ pc' = "ao_reset"
    /\ ThreadFrame
    /\ UNCHANGED <<error_opening, mutex, pcmp, alsav, localv, aov, wv>>

\* alsa.rate = 0; alsa.period_size = 0; strcpy(alsa.device, device);
\* if (strlen(device) > MAX_DEVICE_LEN - 4 - 1) return -1;
AoReset ==
    /\ pc = "ao_reset"
    /\ alsa_rate' = 0
    /\ alsa_period_size' = 0
    /\ alsa_device' = cfg.device
    /\ IF DeviceLen(cfg.device) > MAX_DEVICE_LEN - 4 - 1
       THEN AoReturn(-1)
       ELSE pc' = "ao_open" /\ aoResult' = aoResult
    /\ hwcall' = NoHw
    /\ ThreadFrame
    /\ UNCHANGED <<error_opening, mutex, sessv, alsa_buffer_size, alsa_mmap,
                   alsa_format, write_buf, localv, aoCall, aoOpens,
                   hwp_resample, hwp_rate, hwp_sizes, dev_mmap, dev_fmts, wv>>

\* snd_pcm_open(&pcmp, alsa.device, ...): a failed open leaves pcmp as it was
AoPcmOpen ==
    /\ pc = "ao_open"
    /\ aoOpens' = aoOpens + 1
    /\ \E ok \in BOOLEAN :
         IF ok
         THEN /\ pcmp' = "H" /\ pcm_open' = TRUE
              /\ pc' = "ao_any" /\ aoResult' = aoResult
         ELSE /\ UNCHANGED sessv
              /\ AoReturn(-1)
    /\ hwcall' = <<"alsa_open", "snd_pcm_open">>
    /\ ThreadFrame
    /\ UNCHANGED <<error_opening, mutex, alsav, localv, aoCall, hwp_resample,
                   hwp_rate, hwp_sizes, dev_mmap, dev_fmts, wv>>

\* memset(hw_params, 0, ...); snd_pcm_hw_params_any(pcmp, hw_params)
AoParamsAny ==
    /\ pc = "ao_any"
    /\ hwp_resample' = FALSE
    /\ hwp_rate' = 0
    /\ hwp_sizes' = <<>>
    /\ UNCHANGED <<dev_mmap, dev_fmts>>
    /\ \E ok \in BOOLEAN :
         IF ok THEN pc' = "ao_resample" /\ aoResult' = aoResult
               ELSE AoReturn(-1)
    /\ hwcall' = <<"alsa_open", "snd_pcm_hw_params_any">>
    /\ ThreadFrame
    /\ UNCHANGED <<error_opening, mutex, sessv, alsav, localv, aoCall, aoOpens, wv>>

\* bool hw = !strncmp(alsa.device, "hw:", 3);
hw == alsa_device = "hw"

\* snd_pcm_hw_params_set_rate_resample(pcmp, hw_params, !hw)
AoResample ==
    /\ pc = "ao_resample"
    /\ \E ok \in BOOLEAN :
         IF ok THEN /\ hwp_resample' = ~hw
                    /\ pc' = "ao_rate" /\ aoResult' = aoResult
               ELSE /\ hwp_resample' = hwp_resample
                    /\ AoReturn(-1)
    /\ hwcall' = <<"alsa_open", "snd_pcm_hw_params_set_rate_resample">>
    /\ ThreadFrame
    /\ UNCHANGED <<error_opening, mutex, sessv, alsav, localv, aoCall, aoOpens,
                   hwp_rate, hwp_sizes, dev_mmap, dev_fmts, wv>>

\* the device accepts the rate: snd_pcm_hw_params_set_rate(...) >= 0
AoRateOk ==
    /\ pc = "ao_rate"
    /\ hwp_rate' = current_sample_rate
    /\ UNCHANGED <<hwp_sizes, dev_mmap, dev_fmts>>
    /\ pc' = "ao_access"
    /\ hwcall' = <<"alsa_open", "snd_pcm_hw_params_set_rate">>
    /\ ThreadFrame
    /\ UNCHANGED <<error_opening, mutex, sessv, alsav, localv, aoCall, aoResult,
                   aoOpens, hwp_resample, wv>>

\* AoRateRejected retrying without the change of alsa.device to plughw:
AoRateRejectedSameDevice ==
    /\ pc = "ao_rate"
    /\ IF hw
       THEN /\ pcm_open' = FALSE
            /\ pc' = "ao_open"
            /\ hwcall' = <<"alsa_open", "snd_pcm_close">>
       ELSE /\ pcm_open' = pcm_open
            /\ pc' = "ao_access"
            /\ hwcall' = <<"alsa_open", "snd_pcm_hw_params_set_rate">>
    /\ ThreadFrame
    /\ UNCHANGED <<error_opening, mutex, pcmp, alsav, localv, aov, wv>>

\* the device rejects the rate: a hw: device is closed and reopened as
\* plughw:, with any other device the error is dropped and the open goes on
AoRateRejected ==
    /\ pc = "ao_rate"
    /\ IF hw
       THEN /\ alsa_device' = "plughw"
            /\ pcm_open' = FALSE
            /\ pc' = "ao_open"
            /\ hwcall' = <<"alsa_open", "snd_pcm_close">>
       ELSE /\ alsa_device' = alsa_device
            /\ pcm_open' = pcm_open
            /\ pc' = "ao_access"
            /\ hwcall' = <<"alsa_open", "snd_pcm_hw_params_set_rate">>
    /\ ThreadFrame
    /\ UNCHANGED <<error_opening, mutex, pcmp, alsa_rate, alsa_period_size,
                   alsa_buffer_size, alsa_mmap, alsa_format, write_buf, localv,
                   aov, wv>>

\* if (!alsa.mmap || set_access(MMAP_INTERLEAVED) < 0) {
\*     if (set_access(RW_INTERLEAVED) < 0) return err;  alsa.mmap = false; }
AoAccess ==
    /\ pc = "ao_access"
    /\ \E mmapOk \in BOOLEAN, rwOk \in BOOLEAN :
         /\ dev_mmap' = mmapOk
         /\ IF ~alsa_mmap \/ ~mmapOk
            THEN IF rwOk
                 THEN alsa_mmap' = FALSE /\ pc' = "ao_format" /\ aoResult' = aoResult
                 ELSE alsa_mmap' = alsa_mmap /\ AoReturn(-1)
            ELSE alsa_mmap' = alsa_mmap /\ pc' = "ao_format" /\ aoResult' = aoResult
    /\ hwcall' = <<"alsa_open", "snd_pcm_hw_params_set_access">>
    /\ ThreadFrame
    /\ UNCHANGED <<error_opening, mutex, sessv, alsa_device, alsa_rate,
                   alsa_period_size, alsa_buffer_size, alsa_format, write_buf,
                   localv, aoCall, aoOpens, hwp_resample, hwp_rate, hwp_sizes,
                   dev_fmts, wv>>

\* the first format of fmts[] from index i on that the device accepts, "0" if none
RECURSIVE FirstFmt(_, _)
FirstFmt(accepted, i) ==
    IF i > Len(fmts) THEN "0"
    ELSE IF fmts[i] \in accepted THEN fmts[i]
    ELSE FirstFmt(accepted, i + 1)

\* snd_pcm_format_t *fmt = alsa.format ? &alsa.format : fmts;  do { ... }
\* the format the loop selects for a device accepting `accepted`, "0" = return -1
SelectFormat(accepted) ==
    IF alsa_format # "0"
    THEN (IF alsa_format \in accepted THEN alsa_format ELSE "0")
    ELSE FirstFmt(accepted, 1)

AoFormat ==
    /\ pc = "ao_format"
    /\ \E accepted \in dev.fmtsets :
         /\ dev_fmts' = accepted
         /\ IF SelectFormat(accepted) # "0"
            THEN /\ alsa_format' = SelectFormat(accepted)
                 /\ pc' = "ao_sizes" /\ aoResult' = aoResult
            ELSE /\ alsa_format' = alsa_format
                 /\ AoReturn(-1)
    /\ hwcall' = <<"alsa_open", "snd_pcm_hw_params_set_format">>
    /\ ThreadFrame
    /\ UNCHANGED <<error_opening, mutex, sessv, alsa_device, alsa_rate,
                   alsa_period_size, alsa_buffer_size, alsa_mmap, write_buf,
                   localv, aoCall, aoOpens, hwp_resample, hwp_rate, hwp_sizes,
                   dev_mmap, wv>>

\* if (alsa_period < 50) { unsigned count = alsa_period;
\*     snd_pcm_hw_params_set_periods_near(.., &count, 0) }
\* else { snd_pcm_uframes_t size = alsa_period;
\*     snd_pcm_hw_params_set_period_size_near(.., &size, &dir) }
PeriodRequest(p) ==
    IF p < 50 THEN <<"snd_pcm_hw_params_set_periods_near", p>>
              ELSE <<"snd_pcm_hw_params_set_period_size_near", p>>

\* BufferRequest taking every value as a size in frames
BufferRequestAsSize(b) == <<"snd_pcm_hw_params_set_buffer_size_near", b>>

\* if (alsa_buffer < 500) { unsigned time = alsa_buffer * 1000;
\*     snd_pcm_hw_params_set_buffer_time_near(.., &time, &dir) }
\* (below 500 the product fits an unsigned)
\* else { snd_pcm_uframes_t size = alsa_buffer;
\*     snd_pcm_hw_params_set_buffer_size_near(.., &size) }
BufferRequest(b) ==
    IF b < 500 THEN <<"snd_pcm_hw_params_set_buffer_time_near", b * 1000>>
               ELSE <<"snd_pcm_hw_params_set_buffer_size_near", b>>

\* the period and buffer requests alsa_open makes, in the order of the calls
SizeRequests == <<PeriodRequest(cfg.period), BufferRequest(cfg.buffer)>>

\* set_channels, set_periods_near / set_period_size_near, set_buffer_time_near /
\* set_buffer_size_near, get_period_size, get_buffer_size: any of them may fail
\* (after `made` of the two requests when it is one of the set calls);
\* get_period_size has stored alsa.period_size when get_buffer_size fails
AoSizes ==
    /\ pc = "ao_sizes"
    /\ \E outcome \in {"ok", "set_failed", "get_buffer_failed"}, sz \in dev.sizes,
          made \in 0 .. 2 :
         CASE outcome = "ok" ->
                /\ hwp_sizes' = SizeRequests
                /\ alsa_period_size' = sz[1]
                /\ alsa_buffer_size' = sz[2]
                /\ pc' = "ao_malloc" /\ aoResult' = aoResult
           [] outcome = "set_failed" ->
                /\ hwp_sizes' = SubSeq(SizeRequests, 1, made)
                /\ UNCHANGED <<alsa_period_size, alsa_buffer_size>>
                /\ AoReturn(-1)
           [] outcome = "get_buffer_failed" ->
                /\ hwp_sizes' = SizeRequests
                /\ alsa_period_size' = sz[1]
                /\ alsa_buffer_size' = alsa_buffer_size
                /\ AoReturn(-1)
    /\ hwcall' = <<"alsa_open", "snd_pcm_hw_params_set_sizes">>
    /\ ThreadFrame
    /\ UNCHANGED <<error_opening, mutex, sessv, alsa_device, alsa_rate,
                   alsa_mmap, alsa_format, write_buf, localv, aoCall, aoOpens,
                   hwp_resample, hwp_rate, dev_mmap, dev_fmts, wv>>

\* if (!alsa.mmap && !alsa.write_buf && alsa.format != NATIVE_FORMAT) {
\*     alsa.write_buf = malloc(alsa.buffer_size * BYTES_PER_FRAME); ... }
AoMalloc ==
    /\ pc = "ao_malloc"
    /\ IF ~alsa_mmap /\ write_buf = 0 /\ alsa_format # NATIVE_FORMAT
       THEN \E ok \in BOOLEAN :
              IF ok THEN /\ write_buf' = alsa_buffer_size
                         /\ pc' = "ao_params" /\ aoResult' = aoResult
                    ELSE /\ write_buf' = write_buf
                         /\ AoReturn(-1)
       ELSE write_buf' = write_buf /\ pc' = "ao_params" /\ aoResult' = aoResult
    /\ hwcall' = NoHw
    /\ ThreadFrame
    /\ UNCHANGED <<error_opening, mutex, sessv, alsa_device, alsa_rate,
                   alsa_period_size, alsa_buffer_size, alsa_mmap, alsa_format,
                   localv, aoCall, aoOpens, hwp_resample, hwp_rate, hwp_sizes,
                   dev_mmap, dev_fmts, wv>>

\* snd_pcm_hw_params(pcmp, hw_params); then alsa.rate = sample_rate; return 0;
\* the mutex is held, so sample_rate is still output.current_sample_rate
AoHwParams ==
    /\ pc = "ao_params"
    /\ \E ok \in BOOLEAN :
         IF ok THEN alsa_rate' = current_sample_rate /\ AoReturn(0)
               ELSE alsa_rate' = alsa_rate /\ AoReturn(-1)
    /\ hwcall' = <<"alsa_open", "snd_pcm_hw_params">>
    /\ ThreadFrame
    /\ UNCHANGED <<error_opening, mutex, sessv, alsa_device, alsa_period_size,
                   alsa_buffer_size, alsa_mmap, alsa_format, write_buf, localv,
                   aoCall, aoOpens, hwp_resample, hwp_rate, hwp_sizes, dev_mmap,
                   dev_fmts, wv>>

\* the locals of alsa_open (hw_params) no longer exist once it has returned
AoLocalsGone ==
    /\ aoOpens' = 0
    /\ hwp_resample' = FALSE
    /\ hwp_rate' = 0
    /\ hwp_sizes' = <<>>
    /\ dev_mmap' = FALSE
    /\ dev_fmts' = {}

\* output_thread after alsa_open returned: the result of the extra call made
\* for alsa.reopen is ignored and alsa_open is called again
OpenAgain ==
    /\ pc = "open_ret"
    /\ aoCall = "reopen"
    /\ aoCall' = "main"
    /\ AoLocalsGone
    /\ aoResult' = 0
    /\ pc' = "ao_start"
    /\ hwcall' = NoHw
    /\ ThreadFrame
    /\ UNCHANGED <<error_opening, mutex, sessv, alsav, localv, wv>>

\* if (!!alsa_open(...)) { output.error_opening = true; UNLOCK; sleep(5); continue; }
OpenFailed ==
    /\ pc = "open_ret"
    /\ aoCall = "main"
    /\ aoResult # 0
    /\ error_opening' = TRUE
    /\ aoCall' = "none"
    /\ AoLocalsGone
    /\ pc' = "open_fail_unlock"
    /\ hwcall' = NoHw
    /\ ThreadFrame
    /\ UNCHANGED <<mutex, sessv, alsav, localv, aoResult, wv>>

\* OpenFailedUnlock returning from the thread instead of continuing
OpenFailedExits ==
    /\ pc = "open_fail_unlock"
    /\ mutex' = "none"
    /\ pc' = "done"
    /\ hwcall' = NoHw
    /\ ThreadFrame
    /\ UNCHANGED <<error_opening, sessv, alsav, localv, aov, wv>>

\* UNLOCK; sleep(5); continue;
OpenFailedUnlock ==
    /\ pc = "open_fail_unlock"
    /\ mutex' = "none"
    /\ pc' = "top"
    /\ hwcall' = NoHw
    /\ ThreadFrame
    /\ UNCHANGED <<error_opening, sessv, alsav, localv, aov, wv>>

\* OpenSucceeded without output.error_opening = false
OpenSucceededKeepsFlag ==
    /\ pc = "open_ret"
    /\ aoCall = "main"
    /\ aoResult = 0
    /\ start' = TRUE
    /\ aoCall' = "none"
    /\ AoLocalsGone
    /\ pc' = "open_ok_unlock"
    /\ hwcall' = NoHw
    /\ ThreadFrame
    /\ UNCHANGED <<error_opening, mutex, sessv, alsav, output_off, probe_device,
                   avail, aoResult, wv>>

\* output.error_opening = false; start = true;
OpenSucceeded ==
    /\ pc = "open_ret"
    /\ aoCall = "main"
    /\ aoResult = 0
    /\ error_opening' = FALSE
    /\ start' = TRUE
    /\ aoCall' = "none"
    /\ AoLocalsGone
    /\ pc' = "open_ok_unlock"
    /\ hwcall' = NoHw
    /\ ThreadFrame
    /\ UNCHANGED <<mutex, sessv, alsav, output_off, probe_device, avail, aoResult,
                   wv>>

\* OpenSucceededUnlock without the UNLOCK
OpenSucceededKeepsLock ==
    /\ pc = "open_ok_unlock"
    /\ pc' = "q_state"
    /\ hwcall' = NoHw
    /\ ThreadFrame
    /\ UNCHANGED <<error_opening, mutex, sessv, alsav, localv, aov, wv>>

\* UNLOCK; (end of the open block)
OpenSucceededUnlock ==
    /\ pc = "open_ok_unlock"
    /\ mutex' = "none"
    /\ pc' = "q_state"
    /\ hwcall' = NoHw
    /\ ThreadFrame
    /\ UNCHANGED <<error_opening, sessv, alsav, localv, aov, wv>>

----------------------------------------------------------------------------
(* output_thread: the running loop after the open block *)

\* snd_pcm_state_t state = snd_pcm_state(pcmp);
QueryState ==
    /\ pc = "q_state"
    /\ \E state \in {"RUNNING", "XRUN", "SUSPENDED", "DISCONNECTED"} :
         pc' = CASE state = "XRUN" -> "xrun_recover"
                 [] state = "SUSPENDED" -> "susp_recover"
                 [] state = "DISCONNECTED" -> "disc_close"
                 [] OTHER -> "q_avail"
    /\ hwcall' = <<"output_thread", "snd_pcm_state">>
    /\ ThreadFrame
    /\ UNCHANGED <<error_opening, mutex, sessv, alsav, localv, aov, wv>>

\* XRUN: snd_pcm_recover(pcmp, -EPIPE, 1) (usleep if it fails); start = true; continue;
XrunRecover ==
    /\ pc = "xrun_recover"
    /\ start' = TRUE
    /\ pc' = "top"
    /\ hwcall' = <<"output_thread", "snd_pcm_recover">>
    /\ ThreadFrame
    /\ UNCHANGED <<error_opening, mutex, sessv, alsav, output_off, probe_device,
                   avail, aov, wv>>

\* SUSPENDED: snd_pcm_recover(pcmp, -ESTRPIPE, 1), then on to the avail query
SuspendRecover ==
    /\ pc = "susp_recover"
    /\ pc' = "q_avail"
    /\ hwcall' = <<"output_thread", "snd_pcm_recover">>
    /\ ThreadFrame
    /\ UNCHANGED <<error_opening, mutex, sessv, alsav, localv, aov, wv>>

\* device gone (state DISCONNECTED, or ENODEV from recover): alsa_close();
DisconnectClose ==
    /\ pc = "disc_close"
    /\ pcm_open' = FALSE
    /\ pc' = "disc_null"
    /\ hwcall' = <<"output_thread", "snd_pcm_close">>
    /\ ThreadFrame
    /\ UNCHANGED <<error_opening, mutex, pcmp, alsav, localv, aov, wv>>

\* DisconnectNull without pcmp = NULL
DisconnectNullKeepsHandle ==
    /\ pc = "disc_null"
    /\ probe_device' = TRUE
    /\ pc' = "top"
    /\ hwcall' = NoHw
    /\ ThreadFrame
    /\ UNCHANGED <<error_opening, mutex, sessv, alsav, start, output_off,
                   avail, aov, wv>>

\* pcmp = NULL; probe_device = true; continue;
DisconnectNull ==
    /\ pc = "disc_null"
    /\ pcmp' = "NULL"
    /\ probe_device' = TRUE
    /\ pc' = "top"
    /\ hwcall' = NoHw
    /\ ThreadFrame
    /\ UNCHANGED <<error_opening, mutex, pcm_open, alsav, start, output_off,
                   avail, aov, wv>>

\* snd_pcm_sframes_t avail = snd_pcm_avail_update(pcmp);  (-1: an error code)
QueryAvail ==
    /\ pc = "q_avail"
    /\ \E a \in -1 .. MaxAvail :
         /\ avail' = a
         /\ pc' = IF a < 0 THEN "avail_recover" ELSE "avail_chk"
    /\ hwcall' = <<"output_thread", "snd_pcm_avail_update">>
    /\ ThreadFrame
    /\ UNCHANGED <<error_opening, mutex, sessv, alsav, start, output_off,
                   probe_device, aov, wv>>

\* avail < 0: snd_pcm_recover(pcmp, avail, 1); ENODEV closes the session,
\* otherwise start = true; continue;
AvailRecover ==
    /\ pc = "avail_recover"
    /\ \E err \in {"ok", "failed", "ENODEV"} :
         IF err = "ENODEV"
         THEN pc' = "disc_close" /\ start' = start
         ELSE pc' = "top" /\ start' = TRUE
    /\ hwcall' = <<"output_thread", "snd_pcm_recover">>
    /\ ThreadFrame
    /\ UNCHANGED <<error_opening, mutex, sessv, alsav, output_off, probe_device,
                   avail, aov, wv>>

\* AvailCheck without the restriction of avail
AvailCheckNoClamp ==
    /\ pc = "avail_chk"
    /\ IF avail < alsa_period_size
       THEN /\ avail' = avail
            /\ IF start
               THEN IF alsa_mmap
                    THEN pc' = "do_start" /\ start' = start
                    ELSE pc' = "top" /\ start' = FALSE
               ELSE pc' = "do_wait" /\ start' = start
       ELSE /\ avail' = avail
            /\ start' = start
            /\ pc' = IF avail' = 0 THEN "top" ELSE "xfer_lock"
    /\ hwcall' = NoHw
    /\ ThreadFrame
    /\ UNCHANGED <<error_opening, mutex, sessv, alsav, output_off, probe_device,
                   aov, wv>>

\* if (avail < alsa.period_size) { start / wait ...; continue; }
\* avail = min(avail, mmap ? buffer_size : period_size);
\* if (avail == 0) { usleep(10000); continue; }   LOCK is the next step
AvailCheck ==
    /\ pc = "avail_chk"
    /\ IF avail < alsa_period_size
       THEN /\ avail' = avail
            /\ IF start
               THEN IF alsa_mmap
                    THEN pc' = "do_start" /\ start' = start
                    ELSE pc' = "top" /\ start' = FALSE
               ELSE pc' = "do_wait" /\ start' = start
       ELSE /\ avail' = min(avail, IF alsa_mmap THEN alsa_buffer_size
                                                ELSE alsa_period_size)
            /\ start' = start
            /\ pc' = IF avail' = 0 THEN "top" ELSE "xfer_lock"
    /\ hwcall' = NoHw
    /\ ThreadFrame
    /\ UNCHANGED <<error_opening, mutex, sessv, alsav, output_off, probe_device,
                   aov, wv>>

\* PcmStart leaving start set after a successful snd_pcm_start
PcmStartKeepsPending ==
    /\ pc = "do_start"
    /\ \E ok \in BOOLEAN :
         pc' = IF ok THEN "top" ELSE "start_recover"
    /\ hwcall' = <<"output_thread", "snd_pcm_start">>
    /\ ThreadFrame
    /\ UNCHANGED <<error_opening, mutex, sessv, alsav, localv, aov, wv>>

\* if (alsa.mmap && ((err = snd_pcm_start(pcmp)) < 0)) ... else start = false;
PcmStart ==
    /\ pc = "do_start"
    /\ \E ok \in BOOLEAN :
         IF ok THEN pc' = "top" /\ start' = FALSE
               ELSE pc' = "start_recover" /\ start' = start
    /\ hwcall' = <<"output_thread", "snd_pcm_start">>
    /\ ThreadFrame
    /\ UNCHANGED <<error_opening, mutex, sessv, alsav, output_off, probe_device,
                   avail, aov, wv>>

\* snd_pcm_start failed: snd_pcm_recover(pcmp, err, 1); ENODEV closes the
\* session, another failure sleeps; start stays set
StartRecover ==
    /\ pc = "start_recover"
    /\ \E err \in {"ok", "failed", "ENODEV"} :
         pc' = IF err = "ENODEV" THEN "disc_close" ELSE "top"
    /\ hwcall' = <<"output_thread", "snd_pcm_recover">>
    /\ ThreadFrame
    /\ UNCHANGED <<error_opening, mutex, sessv, alsav, localv, aov, wv>>

\* usleep(10000); if ((err = snd_pcm_wait(pcmp, 1000)) <= 0) ...
PcmWait ==
    /\ pc = "do_wait"
    /\ \E ready \in BOOLEAN :
         pc' = IF ready THEN "top" ELSE "wait_recover"
    /\ hwcall' = <<"output_thread", "snd_pcm_wait">>
    /\ ThreadFrame
    /\ UNCHANGED <<error_opening, mutex, sessv, alsav, localv, aov, wv>>

\* wait timed out or failed: snd_pcm_recover(pcmp, err, 1); start = true;
WaitRecover ==
    /\ pc = "wait_recover"
    /\ start' = TRUE
    /\ pc' = "top"
    /\ hwcall' = <<"output_thread", "snd_pcm_recover">>
    /\ ThreadFrame
    /\ UNCHANGED <<error_opening, mutex, sessv, alsav, output_off, probe_device,
                   avail, aov, wv>>

\* LOCK; (before the transfer)
XferLock ==
    /\ pc = "xfer_lock"
    /\ mutex = "none"
    /\ mutex' = "thread"
    /\ pc' = "off_test"
    /\ hwcall' = NoHw
    /\ xfer_iter' = TRUE
    /\ UNCHANGED <<cfg, dev, running, ctlv, closev, off_iter, volv, testv>>
    /\ UNCHANGED <<error_opening, sessv, alsav, localv, aov, wv>>

\* OffTest without the test of output.state
OffTestSkipped ==
    /\ pc = "off_test"
    /\ pc' = "q_delay"
    /\ hwcall' = NoHw
    /\ ThreadFrame
    /\ UNCHANGED <<error_opening, mutex, sessv, alsav, localv, aov, wv>>

\* if (output.state == OUTPUT_OFF) { UNLOCK; ... }
OffTest ==
    /\ pc = "off_test"
    /\ IF output_state = "OFF"
       THEN mutex' = "none" /\ pc' = "off_close"
       ELSE mutex' = mutex /\ pc' = "q_delay"
    /\ hwcall' = NoHw
    /\ ThreadFrame
    /\ UNCHANGED <<error_opening, sessv, alsav, localv, aov, wv>>

\* disabling output: alsa_close();
OffClose ==
    /\ pc = "off_close"
    /\ pcm_open' = FALSE
    /\ pc' = "off_null"
    /\ hwcall' = <<"output_thread", "snd_pcm_close">>
    /\ ThreadFrame
    /\ UNCHANGED <<error_opening, mutex, pcmp, alsav, localv, aov, wv>>

\* OffNull without pcmp = NULL
OffNullKeepsHandle ==
    /\ pc = "off_null"
    /\ output_off' = TRUE
    /\ pc' = "top"
    /\ hwcall' = NoHw
    /\ ThreadFrame
    /\ UNCHANGED <<error_opening, mutex, sessv, alsav, start, probe_device,
                   avail, aov, wv>>

\* pcmp = NULL; output_off = true; vis_stop(); continue;
OffNull ==
    /\ pc = "off_null"
    /\ pcmp' = "NULL"
    /\ output_off' = TRUE
    /\ pc' = "top"
    /\ hwcall' = NoHw
    /\ ThreadFrame
    /\ UNCHANGED <<error_opening, mutex, pcm_open, alsav, start, probe_device,
                   avail, aov, wv>>

\* snd_pcm_delay(pcmp, &delay): EPIPE and EIO unlock and continue, any other
\* error and success go on to the transfer
QueryDelay ==
    /\ pc = "q_delay"
    /\ \E err \in {"ok", "EPIPE", "EIO", "other"} :
         pc' = IF err \in {"EPIPE", "EIO"} THEN "delay_unlock" ELSE "of_start"
    /\ hwcall' = <<"output_thread", "snd_pcm_delay">>
    /\ ThreadFrame
    /\ UNCHANGED <<error_opening, mutex, sessv, alsav, localv, aov, wv>>

\* DelayUnlock without the UNLOCK
DelayKeepsLock ==
    /\ pc = "delay_unlock"
    /\ pc' = "top"
    /\ hwcall' = NoHw
    /\ ThreadFrame
    /\ UNCHANGED <<error_opening, mutex, sessv, alsav, localv, aov, wv>>

\* UNLOCK; (usleep(100000) after EIO); continue;
DelayUnlock ==
    /\ pc = "delay_unlock"
    /\ mutex' = "none"
    /\ pc' = "top"
    /\ hwcall' = NoHw
    /\ ThreadFrame
    /\ UNCHANGED <<error_opening, sessv, alsav, localv, aov, wv>>

----------------------------------------------------------------------------
(* The transfer: frames_t wrote = _output_frames(avail), which hands the   *)
(* frames to output.write_cb = _write_frames in one or more calls.         *)

\* _output_frames(avail) is entered with the mutex held; avail is not read again
OutputFramesStart ==
    /\ pc = "of_start"
    /\ of_size' = avail
    /\ of_wrote' = 0
    /\ avail' = 0
    /\ pc' = "of_loop"
    /\ hwcall' = NoHw
    /\ ThreadFrame
    /\ UNCHANGED <<error_opening, mutex, sessv, alsav, start, output_off,
                   probe_device, aov, out_frames,
                   wres, w_frames, recover_count, good_since_fail>>

\* while (size > 0) { out_frames = ...; wrote = output.write_cb(out_frames, ...)
OutputFramesNext ==
    /\ pc = "of_loop"
    /\ IF of_size > 0
       THEN /\ \E n \in 1 .. of_size : out_frames' = n
            /\ pc' = "w_begin"
       ELSE /\ out_frames' = out_frames
            /\ pc' = "xfer_unlock"
    /\ hwcall' = NoHw
    /\ ThreadFrame
    /\ UNCHANGED <<error_opening, mutex, sessv, alsav, localv, aov, of_size,
                   of_wrote, wres, w_frames, recover_count, good_since_fail>>

\* if (wrote <= 0) break;  size -= wrote;
OutputFramesRet ==
    /\ pc = "of_ret"
    /\ IF wres <= 0
       THEN /\ UNCHANGED <<of_size, of_wrote>>
            /\ pc' = "xfer_unlock"
       ELSE /\ of_size' = of_size - wres
            /\ of_wrote' = of_wrote + wres
            /\ pc' = "of_loop"
    /\ w_frames' = 0
    /\ hwcall' = NoHw
    /\ ThreadFrame
    /\ UNCHANGED <<error_opening, mutex, sessv, alsav, localv, aov, out_frames,
                   wres, recover_count, good_since_fail>>

\* UNLOCK; if (!wrote) usleep(10000);  end of the loop body
XferUnlock ==
    /\ pc = "xfer_unlock"
    /\ mutex' = "none"
    /\ of_size' = 0
    /\ of_wrote' = 0
    /\ out_frames' = 0
    /\ wres' = 0
    /\ pc' = "top"
    /\ hwcall' = NoHw
    /\ ThreadFrame
    /\ UNCHANGED <<error_opening, sessv, alsav, localv, aov, w_frames,
                   recover_count, good_since_fail>>

\* return from _write_frames with value r
WriteReturn(r) == wres' = r /\ pc' = "of_ret"

\* a write was accepted by the hardware
WriteSucceeded == good_since_fail' = (good_since_fail \/ recover_count > 0)

\* if (alsa.mmap) { snd_pcm_avail_update(pcmp);
\*     if (snd_pcm_mmap_begin(pcmp, &areas, &offset, &alsa_frames) < 0) return -1;
\*     out_frames = alsa_frames; }
WriteMmapBegin ==
    /\ pc = "w_begin"
    /\ alsa_mmap
    /\ \E n \in -1 .. out_frames :
         IF n < 0
         THEN out_frames' = out_frames /\ WriteReturn(-1)
         ELSE out_frames' = n /\ pc' = "w_commit" /\ wres' = wres
    /\ hwcall' = <<"_write_frames", "snd_pcm_mmap_begin">>
    /\ ThreadFrame
    /\ UNCHANGED <<error_opening, mutex, sessv, alsav, localv, aov, of_size,
                   of_wrote, w_frames, recover_count, good_since_fail>>

\* w = snd_pcm_mmap_commit(pcmp, offset, out_frames);
\* if (w < 0 || w != out_frames) return -1;  return out_frames;
WriteMmapCommit ==
    /\ pc = "w_commit"
    /\ \E w \in -1 .. out_frames :
         /\ w_frames' = w
         /\ IF w < 0 \/ w # out_frames
            THEN WriteReturn(-1) /\ good_since_fail' = good_since_fail
            ELSE WriteReturn(out_frames) /\ WriteSucceeded
    /\ hwcall' = <<"_write_frames", "snd_pcm_mmap_commit">>
    /\ ThreadFrame
    /\ UNCHANGED <<error_opening, mutex, sessv, alsav, localv, aov, of_size,
                   of_wrote, out_frames, recover_count>>

\* WriteWritei returning a failure at once, without the call of snd_pcm_recover
WriteWriteiNoRecover ==
    /\ pc = "w_begin"
    /\ ~alsa_mmap
    /\ \E w \in -1 .. out_frames :
         /\ w_frames' = w
         /\ IF w < 0
            THEN /\ WriteReturn(-1)
                 /\ UNCHANGED <<out_frames, good_since_fail>>
            ELSE /\ out_frames' = w
                 /\ WriteReturn(w)
                 /\ WriteSucceeded
    /\ hwcall' = <<"_write_frames", "snd_pcm_writei">>
    /\ ThreadFrame
    /\ UNCHANGED <<error_opening, mutex, sessv, alsav, localv, aov, of_size,
                   of_wrote, recover_count>>

\* w = snd_pcm_writei(pcmp, outputptr, out_frames);
\* if (w < 0) { recover ...; return -1; } else { out_frames = w; } return out_frames;
WriteWritei ==
    /\ pc = "w_begin"
    /\ ~alsa_mmap
    /\ \E w \in -1 .. out_frames :
         /\ w_frames' = w
         /\ IF w < 0
            THEN /\ pc' = "w_recover"
                 /\ UNCHANGED <<out_frames, wres, good_since_fail>>
            ELSE /\ out_frames' = w
                 /\ WriteReturn(w)
                 /\ WriteSucceeded
    /\ hwcall' = <<"_write_frames", "snd_pcm_writei">>
    /\ ThreadFrame
    /\ UNCHANGED <<error_opening, mutex, sessv, alsav, localv, aov, of_size,
                   of_wrote, recover_count>>

\* WriteRecover closing the session at the first failed recovery
WriteRecoverClosesAtOnce ==
    /\ pc = "w_recover"
    /\ \E ok \in BOOLEAN :
         IF ok
         THEN recover_count' = recover_count /\ WriteReturn(-1)
         ELSE /\ recover_count' = recover_count + 1
              /\ pc' = "w_close" /\ wres' = wres
    /\ hwcall' = <<"_write_frames", "snd_pcm_recover">>
    /\ ThreadFrame
    /\ UNCHANGED <<error_opening, mutex, sessv, alsav, localv, aov, of_size,
                   of_wrote, out_frames, w_frames, good_since_fail>>

\* if ((err = snd_pcm_recover(pcmp, w, 1)) < 0) { ++recover_count;
\*     if (recover_count >= 10) { ... } }  return -1;
WriteRecover ==
    /\ pc = "w_recover"
    /\ \E ok \in BOOLEAN :
         IF ok
         THEN recover_count' = recover_count /\ WriteReturn(-1)
         ELSE /\ recover_count' = recover_count + 1
              /\ IF recover_count' >= RECOVER_LIMIT
                 THEN pc' = "w_close" /\ wres' = wres
                 ELSE WriteReturn(-1)
    /\ hwcall' = <<"_write_frames", "snd_pcm_recover">>
    /\ ThreadFrame
    /\ UNCHANGED <<error_opening, mutex, sessv, alsav, localv, aov, of_size,
                   of_wrote, out_frames, w_frames, good_since_fail>>

\* recover_count = 0; alsa_close();
WriteClose ==
    /\ pc = "w_close"
    /\ recover_count' = 0
    /\ pcm_open' = FALSE
    /\ pc' = "w_null"
    /\ hwcall' = <<"_write_frames", "snd_pcm_close">>
    /\ ThreadFrame
    /\ UNCHANGED <<error_opening, mutex, pcmp, alsav, localv, aov, of_size,
                   of_wrote, out_frames, wres, w_frames, good_since_fail>>

\* pcmp = NULL;  return -1;
WriteNull ==
    /\ pc = "w_null"
    /\ pcmp' = "NULL"
    /\ good_since_fail' = FALSE
    /\ WriteReturn(-1)
    /\ hwcall' = NoHw
    /\ ThreadFrame
    /\ UNCHANGED <<error_opening, mutex, pcm_open, alsav, localv, aov, of_size,
                   of_wrote, out_frames, w_frames, recover_count>>

----------------------------------------------------------------------------
(* The control side: the protocol client changes output.state and          *)
(* output.current_sample_rate inside a critical section of the mutex.      *)

SetOutputState ==
    /\ mutex = "none"
    /\ output_state' = IF output_state = "OFF" THEN "ON" ELSE "OFF"
    /\ off_iter' = FALSE
    /\ UNCHANGED <<volv, testv, cfg, dev, running, current_sample_rate, error_opening, mutex,
                   sessv, alsav, pc, localv, aov, wv, closev, hwcall, xfer_iter>>

SetSampleRate ==
    /\ mutex = "none"
    /\ \E r \in Rates \ {current_sample_rate} : current_sample_rate' = r
    /\ off_iter' = FALSE
    /\ UNCHANGED <<volv, testv, cfg, dev, running, output_state, error_opening, mutex, sessv,
                   alsav, pc, localv, aov, wv, closev, hwcall, xfer_iter>>

----------------------------------------------------------------------------
(* output_close_alsa() *)

\* LOCK;
CloseLock ==
    /\ cpc = "idle"
    /\ mutex = "none"
    /\ mutex' = "closer"
    /\ cpc' = "locked"
    /\ UNCHANGED <<volv, testv, cfg, dev, running, ctlv, error_opening, sessv, alsav, pc, localv,
                   aov, wv, freed, hwcall, iterv>>

\* running = false; UNLOCK;
CloseStop ==
    /\ cpc = "locked"
    /\ running' = FALSE
    /\ mutex' = "none"
    /\ cpc' = "joining"
    /\ UNCHANGED <<volv, testv, cfg, dev, ctlv, error_opening, sessv, alsav, pc, localv, aov, wv,
                   freed, hwcall, iterv>>

\* the block alsa.mixer_ctl points to: alsa.ctl itself when no mixer device
\* is configured (alsa.mixer_ctl = mixer_device ? ctl4device(mixer_device) : alsa.ctl)
MixerCtlBlock == IF cfg.mixer_device THEN "mixer_ctl" ELSE "ctl"

\* f with the count of block b raised by one
Free(f, b) == [f EXCEPT ![b] = @ + 1]

\* pthread_join(thread, NULL); if (alsa.write_buf) free(alsa.write_buf);
\* if (alsa.ctl) free(alsa.ctl); if (alsa.mixer_ctl) free(alsa.mixer_ctl);
CloseJoin ==
    /\ cpc = "joining"
    /\ pc = "done"
    /\ freed' = Free(Free(IF write_buf # 0 THEN Free(freed, "write_buf") ELSE freed,
                          "ctl"),
                     MixerCtlBlock)
    /\ cpc' = "returned"
    /\ UNCHANGED <<volv, testv, cfg, dev, running, ctlv, error_opening, mutex, sessv, alsav, pc,
                   localv, aov, wv, hwcall, iterv>>

----------------------------------------------------------------------------
(* The volume path: the mixer part of output_init_alsa, and set_volume,   *)
(* called by the protocol thread once the player runs.                     *)

\* no step of the volume path touches the session or the output thread
VolumeFrame == UNCHANGED <<cfg, dev, running, ctlv, error_opening, sessv, alsav,
                           pc, localv, aov, wv, closev, hwcall, iterv, testv>>

\* set_mixer(setmax, smin, ldb, rdb): the value passed to
\* snd_mixer_selem_set_playback_dB_all
set_mixer(setmax, smin, ldb) ==
    LET min1 == smin \/ ldb < MINVOL_DB \/ ldb = SND_CTL_TLV_DB_GAIN_MUTE
        db1 == IF setmax THEN CDiv(mixer_maxdb, 100) ELSE ldb
        db2 == IF min1 THEN CDiv(mixer_mindb, 100) ELSE db1
    IN  100 * db2

\* InitMixer without alsa.volume_mixer_name = NULL after a failure
InitMixerKeepsName ==
    /\ ipc = "mixer"
    /\ IF volume_mixer_name
       THEN \E f \in 0 .. 6 :
              /\ mixer_failed' = f
              /\ IF f = 0
                 THEN /\ \E rg \in MixerRanges :
                           mixer_mindb' = rg[1] /\ mixer_maxdb' = rg[2]
                      /\ mixer_handle' = "M"
                      /\ mixer_open' = TRUE
                 ELSE /\ mixer_handle' = "NULL"
                      /\ mixer_open' = (f = 6)
                      /\ UNCHANGED <<mixer_mindb, mixer_maxdb>>
       ELSE UNCHANGED <<mixer_failed, mixv>>
    /\ ipc' = "unmute"
    /\ VolumeFrame
    /\ UNCHANGED <<mutex, modev, gainv, argv, cmdv, vpc, vcall>>

\* if (volume_mixer_name) { if (mixer_init_alsa(...) < 0) { alsa.mixer_handle =
\* NULL; alsa.volume_mixer_name = NULL; } }   mixer_init_alsa fails at step f
\* (1 open, 2 attach, 3 register, 4 load, 5 find_selem, 6 get dB range) or
\* succeeds (f = 0); steps 2 to 5 close the mixer before returning -1
InitMixer ==
    /\ ipc = "mixer"
    /\ IF volume_mixer_name
       THEN \E f \in 0 .. 6 :
              /\ mixer_failed' = f
              /\ IF f = 0
                 THEN /\ \E rg \in MixerRanges :
                           mixer_mindb' = rg[1] /\ mixer_maxdb' = rg[2]
                      /\ mixer_handle' = "M"
                      /\ mixer_open' = TRUE
                      /\ UNCHANGED volume_mixer_name
                 ELSE /\ volume_mixer_name' = FALSE
                      /\ mixer_handle' = "NULL"
                      /\ mixer_open' = (f = 6)
                      /\ UNCHANGED <<mixer_mindb, mixer_maxdb>>
       ELSE UNCHANGED <<mixer_failed, mixv, volume_mixer_name>>
    /\ ipc' = "unmute"
    /\ VolumeFrame
    /\ UNCHANGED <<mutex, mixer_linear, linear_dB_internal, mixer_unmute, vin,
                   gainv, argv, cmdv, vpc, vcall>>

\* if (mixer_unmute && alsa.volume_mixer_name) { set_mixer(1, 0, 0, 0);
\*     alsa.volume_mixer_name = NULL; }
InitUnmute ==
    /\ ipc = "unmute"
    /\ IF mixer_unmute /\ volume_mixer_name
       THEN /\ mixer_db' = <<set_mixer(TRUE, FALSE, 0)>>
            /\ mixer_by' = "init"
            /\ volume_mixer_name' = FALSE
       ELSE UNCHANGED <<cmdv, volume_mixer_name>>
    /\ ipc' = "start"
    /\ VolumeFrame
    /\ UNCHANGED <<mutex, mixer_linear, linear_dB_internal, mixer_unmute, vin,
                   mixv, gainv, argv, vpc, vcall, mixer_failed>>

\* pthread_create(&thread, &attr, output_thread, ...); and the return of
\* output_init_alsa
InitStart ==
    /\ ipc = "start"
    /\ ipc' = "done"
    /\ VolumeFrame
    /\ UNCHANGED <<mutex, modev, mixv, gainv, argv, cmdv, vpc, vcall, mixer_failed>>

\* set_volume(left, right) is called: long l = 0; long r = 0; bool setmin = 0;
\* if (!alsa.volume_mixer_name) ... else { LOCK; ...
SetVolumeCall ==
    /\ ipc = "done"
    /\ vpc = "idle"
    /\ \E a \in vin : left' = a[1] /\ right' = a[2]
    /\ sv_l' = 0 /\ sv_r' = 0 /\ setmin' = FALSE
    /\ tbl_index' = <<>>
    /\ mixer_db' = <<>>
    /\ vcall' = 1 - vcall
    /\ vpc' = IF volume_mixer_name THEN "sv_lock" ELSE "sv_map"
    /\ VolumeFrame
    /\ UNCHANGED <<mutex, modev, mixv, gainv, mixer_by, ipc, mixer_failed>>

\* SvMap storing the volume itself also in curve mode
SvMapPassesThrough ==
    /\ vpc = "sv_map"
    /\ sv_l' = left /\ sv_r' = right
    /\ tbl_index' = IF linear_dB_internal /\ left > 0
                    THEN <<FirstBelow(left) - 1>> ELSE tbl_index
    /\ vpc' = "sv_lock"
    /\ VolumeFrame
    /\ UNCHANGED <<mutex, modev, mixv, gainv, left, right, setmin, cmdv, vcall,
                   ipc, mixer_failed>>

\* software gain: if (alsa.linear_dB_internal) { if (left > 0) { lower = first
\* i with gscale[i] < left; l = gscalenew[lower - 1]; r = gscalenew[lower - 1]; } }
\* else { l = left; r = right; }
SvMap ==
    /\ vpc = "sv_map"
    /\ IF linear_dB_internal
       THEN IF left > 0
            THEN LET lower == FirstBelow(left) IN
                 /\ tbl_index' = <<lower - 1>>
                 /\ IF lower - 1 >= 0
                    THEN sv_l' = gscalenew[lower] /\ sv_r' = gscalenew[lower]
                    ELSE \E x \in Garbage : \E y \in Garbage :
                           sv_l' = x /\ sv_r' = y
            ELSE UNCHANGED <<sv_l, sv_r, tbl_index>>
       ELSE sv_l' = left /\ sv_r' = right /\ UNCHANGED tbl_index
    /\ vpc' = "sv_lock"
    /\ VolumeFrame
    /\ UNCHANGED <<mutex, modev, mixv, gainv, left, right, setmin, cmdv, vcall,
                   ipc, mixer_failed>>

\* LOCK;
SvLock ==
    /\ vpc = "sv_lock"
    /\ mutex = "none"
    /\ mutex' = "volume"
    /\ vpc' = "sv_gainL"
    /\ VolumeFrame
    /\ UNCHANGED <<modev, mixv, gainv, argv, cmdv, vcall, ipc, mixer_failed>>

\* SvGainL with an UNLOCK between the two assignments
SvGainLUnlocks ==
    /\ vpc = "sv_gainL"
    /\ gainL' = IF volume_mixer_name THEN FIXED_ONE ELSE sv_l
    /\ gainL_by' = vcall
    /\ mutex' = "none"
    /\ vpc' = "sv_gainR"
    /\ VolumeFrame
    /\ UNCHANGED <<modev, mixv, gainR, gainR_by, argv, cmdv, vcall, ipc,
                   mixer_failed>>

\* output.gainL = l;  or  output.gainL = FIXED_ONE;
SvGainL ==
    /\ vpc = "sv_gainL"
    /\ gainL' = IF volume_mixer_name THEN FIXED_ONE ELSE sv_l
    /\ gainL_by' = vcall
    /\ vpc' = "sv_gainR"
    /\ VolumeFrame
    /\ UNCHANGED <<mutex, modev, mixv, gainR, gainR_by, argv, cmdv, vcall, ipc,
                   mixer_failed>>

\* output.gainR = r;  or  output.gainR = FIXED_ONE;
SvGainR ==
    /\ vpc = "sv_gainR"
    /\ gainR' = IF volume_mixer_name THEN FIXED_ONE ELSE sv_r
    /\ gainR_by' = vcall
    /\ vpc' = "sv_unlock"
    /\ VolumeFrame
    /\ UNCHANGED <<mutex, modev, mixv, gainL, gainL_by, argv, cmdv, vcall, ipc,
                   mixer_failed>>

\* UNLOCK; return;  in software mode, UNLOCK; and on to the dB conversion
\* with a mixer
SvUnlock ==
    /\ vpc = "sv_unlock"
    /\ mutex' = "none"
    /\ vpc' = IF volume_mixer_name THEN "sv_db" ELSE "sv_ret"
    /\ VolumeFrame
    /\ UNCHANGED <<modev, mixv, gainv, argv, cmdv, vcall, ipc, mixer_failed>>

\* if (!alsa.mixer_linear) { if (left > 0) l = r = floor(20 * log10(left /
\* 65536.0F)); else { setmin = 1; l = r = alsa.mixer_mindb / 100; } }
\* else { if (left > 0) { low = first i with gscale[i] < left;
\*     l = r = (gscale[low - 1] - left) >= (left - gscale[low]) ? -low : -(low - 1); }
\*   else { setmin = 1; l = r = alsa.mixer_mindb / 100; } }
SvDb ==
    /\ vpc = "sv_db"
    /\ IF left > 0
       THEN /\ UNCHANGED setmin
            /\ IF ~mixer_linear
               THEN /\ sv_l' = DirectDb(left)
                    /\ UNCHANGED tbl_index
               ELSE LET low == FirstBelow(left) IN
                    /\ tbl_index' = <<low - 1>>
                    /\ \E g \in (IF low - 1 >= 0 THEN {gscale[low]} ELSE Garbage) :
                         sv_l' = IF (g - left) >= (left - gscale[low + 1])
                                 THEN -low ELSE -(low - 1)
       ELSE /\ setmin' = TRUE
            /\ sv_l' = CDiv(mixer_mindb, 100)
            /\ UNCHANGED tbl_index
    /\ sv_r' = sv_l'
    /\ vpc' = "sv_mixer"
    /\ VolumeFrame
    /\ UNCHANGED <<mutex, modev, mixv, gainv, left, right, cmdv, vcall, ipc,
                   mixer_failed>>

\* set_mixer(setmax, setmin, l, r);
SvSetMixer ==
    /\ vpc = "sv_mixer"
    /\ mixer_db' = <<set_mixer(FALSE, setmin, sv_l)>>
    /\ mixer_by' = "set_volume"
    /\ vpc' = "sv_ret"
    /\ VolumeFrame
    /\ UNCHANGED <<mutex, modev, mixv, gainv, argv, vcall, ipc, mixer_failed>>

\* set_volume returns: its arguments and locals are gone
SvReturn ==
    /\ vpc = "sv_ret"
    /\ left' = 0 /\ right' = 0 /\ sv_l' = 0 /\ sv_r' = 0 /\ setmin' = FALSE
    /\ tbl_index' = <<>>
    /\ vpc' = "idle"
    /\ VolumeFrame
    /\ UNCHANGED <<mutex, modev, mixv, gainv, cmdv, vcall, ipc, mixer_failed>>

----------------------------------------------------------------------------
Thread ==
    \/ LoopTop \/ OffLock \/ OffRead \/ OffCheck \/ Probe \/ ProbeSleep
    \/ OpenCheck \/ OpenLock
    \/ AoCloseOld \/ AoReset \/ AoPcmOpen \/ AoParamsAny \/ AoResample
    \/ AoRateOk \/ AoRateRejected \/ AoAccess \/ AoFormat \/ AoSizes
    \/ AoMalloc \/ AoHwParams
    \/ OpenAgain \/ OpenFailed \/ OpenFailedUnlock \/ OpenSucceeded
    \/ OpenSucceededUnlock
    \/ QueryState \/ XrunRecover \/ SuspendRecover \/ DisconnectClose
    \/ DisconnectNull \/ QueryAvail \/ AvailRecover \/ AvailCheck \/ PcmStart
    \/ StartRecover \/ PcmWait \/ WaitRecover \/ XferLock \/ OffTest
    \/ OffClose \/ OffNull \/ QueryDelay \/ DelayUnlock
    \/ OutputFramesStart \/ OutputFramesNext \/ OutputFramesRet \/ XferUnlock
    \/ WriteMmapBegin \/ WriteMmapCommit \/ WriteWritei \/ WriteRecover
    \/ WriteClose \/ WriteNull

Control == SetOutputState \/ SetSampleRate

Closer == CloseLock \/ CloseStop \/ CloseJoin

Next == Thread \/ Control \/ Closer

Spec == Init /\ [][Next]_vars

\* the scheduler runs the output thread whenever it can take a step
FairSpec == Spec /\ WF_vars(Thread)

\* the thread, the writers of its inputs and shutdown, for the configuration
\* that opens a hw: device twice, with the thread always taking its next step
LockInit ==
    /\ Init
    /\ cfg.reopen
    /\ cfg.device = "hw"

LockSpec == LockInit /\ [][Next]_vars /\ WF_vars(Thread)

\* the thread opening the device for each buffer and period value
SizeInit ==
    /\ InitWith(SizeConfigs, {MainDevice})
    /\ output_state = "ON"
    /\ current_sample_rate = 44100
    /\ alsa_mmap
    /\ ~probe_device
    /\ VolInitWith({SoftwareMode}, {})
    /\ ipc = "done"
    /\ TestDone

SizeSpec == SizeInit /\ [][Next]_vars

\* the thread started with memory-mapped transfer configured and no sample
\* format given, on a device whose answers vary from one open to the next
ReopenInit ==
    /\ InitWith({c \in Configs : c.device = "other" /\ c.reopen}, {VaryingDevice})
    /\ output_state = "ON"
    /\ current_sample_rate = 44100
    /\ alsa_mmap
    /\ ~probe_device
    /\ VolInitWith({SoftwareMode}, {})
    /\ ipc = "done"
    /\ TestDone

ReopenSpec == ReopenInit /\ [][Next]_vars

PlayerInit == InitMixer \/ InitUnmute \/ InitStart

Volume ==
    \/ SetVolumeCall \/ SvMap \/ SvLock \/ SvGainL \/ SvGainR \/ SvUnlock
    \/ SvDb \/ SvSetMixer \/ SvReturn

\* the thread as output_init_alsa finds it before it creates it
ThreadNotStarted ==
    /\ InitWith({c \in Configs : c.device = "hw" /\ ~c.reopen}, {MainDevice})
    /\ output_state = "OFF"
    /\ current_sample_rate = 44100
    /\ alsa_mmap
    /\ ~probe_device

\* the volume path alone: the mixer set-up of output_init_alsa followed by
\* calls of set_volume, for every mode; the modes whose software gain uses
\* the tables get the values of VolInputs, the others those of PassInputs
VolInit ==
    /\ ThreadNotStarted
    /\ \/ VolInitWith({m \in VolModes : m.curve}, VolInputs)
       \/ VolInitWith({m \in VolModes : ~m.curve}, PassInputs)
    /\ ipc = "mixer"
    /\ TestDone

VolNext == PlayerInit \/ Volume

VolSpec == VolInit /\ [][VolNext]_vars

\* the volume path once output_init_alsa has returned without a mixer
\* failure and without unmuting, for a mode of M and callers passing values
\* of I
VolReady(M, I) ==
    /\ VolInitWith(M, I)
    /\ ~mixer_unmute
    /\ ipc = "done"
    /\ TestDone

\* set_volume called while the output thread runs: one configuration of the
\* thread, software gain without a table, one volume
ConcInit ==
    /\ InitWith({c \in Configs : c.device = "hw" /\ c.reopen}, {MainDevice})
    /\ VolReady({SoftwareMode}, {<<FIXED_ONE, FIXED_ONE>>})

\* the output thread, the threads writing output.state and the rate, and
\* the steps set_volume takes in software mode
ConcNext ==
    \/ Thread \/ Control
    \/ SetVolumeCall \/ SvMap \/ SvLock \/ SvGainL \/ SvGainR \/ SvUnlock
    \/ SvReturn

ConcSpec == ConcInit /\ [][ConcNext]_vars

----------------------------------------------------------------------------
(* test_open(device, rates, userdef_rates): the probe of the output device  *)
(* made before the output thread exists.                                    *)

\* no step of test_open touches the thread, the session or the volume path
TestFrame == UNCHANGED <<cfg, dev, running, ctlv, error_opening, mutex, sessv,
                         alsav, pc, localv, aov, wv, closev, hwcall, iterv, volv,
                         test_dev, userdef_rates>>

\* if ((err = snd_pcm_open(&pcm, device, SND_PCM_STREAM_PLAYBACK, 0)) < 0)
\*     return false;
TestPcmOpen ==
    /\ tpc = "t_open"
    /\ \E ok \in BOOLEAN :
          /\ test_pcm' = ok
          /\ tpc' = IF ok THEN "t_any" ELSE "t_ret"
          /\ test_ret' = IF ok THEN test_ret ELSE "false"
    /\ UNCHANGED <<rates, test_i, test_ind>>
    /\ TestFrame

\* the failure leaves pcm as it is:
\* if ((err = snd_pcm_hw_params_any(pcm, hw_params)) < 0) return false;
TestParamsAnyFails ==
    /\ tpc' = "t_ret"
    /\ test_ret' = "false"
    /\ UNCHANGED <<test_pcm, rates, test_i, test_ind>>

\* snd_pcm_hw_params_any(pcm, hw_params); if (!userdef_rates) { for (i = 0,
\* ind = 0; ...
TestParamsAny ==
    /\ tpc = "t_any"
    /\ \/ TestParamsAnyFails
       \/ /\ tpc' = IF userdef_rates THEN "t_close" ELSE "t_rates"
          /\ test_i' = IF userdef_rates THEN test_i ELSE 1
          /\ test_ind' = IF userdef_rates THEN test_ind ELSE 1
          /\ UNCHANGED <<test_pcm, rates, test_ret>>
    /\ TestFrame

\* for (...; ref[i]; ++i) { if (snd_pcm_hw_params_test_rate(pcm, hw_params,
\* ref[i], 0) == 0) { rates[ind++] = ref[i]; } }
TestRate ==
    /\ tpc = "t_rates"
    /\ IF TEST_RATES[test_i] = 0
       THEN /\ tpc' = "t_close"
            /\ UNCHANGED <<rates, test_i, test_ind>>
       ELSE /\ tpc' = "t_rates"
            /\ test_i' = test_i + 1
            /\ IF TEST_RATES[test_i] \in test_dev
               THEN /\ rates' = [rates EXCEPT ![test_ind] = TEST_RATES[test_i]]
                    /\ test_ind' = test_ind + 1
               ELSE UNCHANGED <<rates, test_ind>>
    /\ UNCHANGED <<test_pcm, test_ret>>
    /\ TestFrame

\* if ((err = snd_pcm_close(pcm)) < 0) return false; return true;
TestClose ==
    /\ tpc = "t_close"
    /\ test_pcm' = FALSE
    /\ \E ok \in BOOLEAN : test_ret' = IF ok THEN "true" ELSE "false"
    /\ tpc' = "t_ret"
    /\ UNCHANGED <<rates, test_i, test_ind>>
    /\ TestFrame

\* test_open is entered: with the user's rates in the array, or with none
TestInit ==
    /\ ThreadNotStarted
    /\ VolInitWith({SoftwareMode}, {})
    /\ ipc = "mixer"
    /\ tpc = "t_open"
    /\ test_dev \in SUBSET {TEST_RATES[k] : k \in 1 .. Len(TEST_RATES) - 1}
    /\ test_pcm = FALSE
    /\ userdef_rates \in BOOLEAN
    /\ rates = IF userdef_rates THEN UserRates ELSE NoRates
    /\ test_i = 0
    /\ test_ind = 0
    /\ test_ret = "none"

TestNext == TestPcmOpen \/ TestParamsAny \/ TestRate \/ TestClose

TestSpec == TestInit /\ [][TestNext]_vars

\* the candidates from position k on that the device supports, in order
RECURSIVE SupportedFrom(_)
SupportedFrom(k) ==
    IF TEST_RATES[k] = 0 THEN <<>>
    ELSE (IF TEST_RATES[k] \in test_dev THEN <<TEST_RATES[k]>> ELSE <<>>)
         \o SupportedFrom(k + 1)

----------------------------------------------------------------------------
(* Positions of the thread *)

\* inside alsa_open, or at its return before the result is handled
InAlsaOpen == pc \in {"ao_start", "ao_reset", "ao_open", "ao_any", "ao_resample",
                      "ao_rate", "ao_access", "ao_format", "ao_sizes",
                      "ao_malloc", "ao_params", "open_ret"}

\* inside _write_frames, before a call on the session handle
InWrite == pc \in {"w_begin", "w_commit", "w_recover"}

\* past the open block of the loop body: querying the device or transferring
PastOpen == pc \in {"open_ok_unlock", "q_state", "xrun_recover", "susp_recover",
                    "disc_close", "disc_null", "q_avail", "avail_recover",
                    "avail_chk", "do_start", "start_recover", "do_wait",
                    "wait_recover", "xfer_lock", "off_test", "off_close",
                    "off_null", "q_delay", "delay_unlock", "of_start", "of_loop",
                    "of_ret", "xfer_unlock", "w_begin", "w_commit", "w_recover",
                    "w_close", "w_null"}

WriteClosed == hwcall = <<"_write_frames", "snd_pcm_close">>

----------------------------------------------------------------------------
(* Claims *)

\* C1 as stated: no hardware call is made while the output thread holds the
\* output mutex.
C1_NoHwCallUnderLock == hwcall # NoHw => mutex # "thread"

\* C1 amended: the state query, the avail query, start, wait, the recover
\* calls of the loop, the close on disconnect or OFF and the device probe
\* are made without the mutex; every call made by alsa_open, the delay query
\* and every call made by _write_frames are made while the thread holds it.
C1_LockDiscipline ==
    /\ hwcall[1] \in {"alsa_open", "_write_frames"} => mutex = "thread"
    /\ hwcall = <<"output_thread", "snd_pcm_delay">> => mutex = "thread"
    /\ hwcall[1] = "pcm_probe" => mutex # "thread"
    /\ (hwcall[1] = "output_thread" /\ hwcall[2] # "snd_pcm_delay")
          => mutex # "thread"

C1_Witness ==
    /\ hwcall = <<"output_thread", "snd_pcm_avail_update">>
    /\ mutex # "thread"
    /\ pcm_open

\* C2 as stated: once running is false the output thread eventually returns,
\* whatever the device does.
C2_ShutdownTerminates == (~running) ~> (pc = "done")

C4_OffIdleNoHardware ==
    output_off => /\ pcmp = "NULL"
                  /\ ~pcm_open
                  /\ hwcall = NoHw
                  /\ pc \in {"top", "off_sleep", "off_read", "off_chk", "done"}

C4_Witness == output_off /\ pc = "off_read" /\ alsa_rate # 0

\* C5 as stated: the write path closes the session only when 10
\* unrecoverable write errors occurred consecutively, with no successful
\* write in between.
C5_ClosesOnlyOnConsecutiveErrors == WriteClosed => ~good_since_fail

\* C5 amended: only in copy-write mode, the write path closes the session
\* when and only when recover_count, the number of failed recoveries since
\* the last such close, reaches 10 (successful writes do not reset it); in
\* memory-mapped mode the write path never closes the session.  Every call
\* of the write path is made on a non-NULL, open handle, so after the close
\* an open precedes the next write.
C5_WriteClose ==
    /\ pc = "w_close" => (recover_count = RECOVER_LIMIT /\ ~alsa_mmap)
    /\ recover_count >= RECOVER_LIMIT => pc = "w_close"
    /\ WriteClosed => (~alsa_mmap /\ recover_count = 0 /\ ~pcm_open)
    /\ pc = "of_ret" /\ pcmp = "NULL" => wres = -1
    /\ InWrite => (pcmp # "NULL" /\ pcm_open)

C5_Witness == WriteClosed /\ pc = "w_null" /\ good_since_fail

\* C6: the thread has returned only if running is false.
C6_ReturnsOnlyOnShutdown == pc = "done" => ~running

C6_Witness == pc = "done" /\ error_opening

\* C7 as stated: when output_close_alsa has returned, the PCM handle is
\* closed and every block (write buffer, device control name, mixer control
\* name) has been freed exactly once.
C7_ReleasedExactlyOnce ==
    cpc = "returned" =>
        /\ ~pcm_open
        /\ freed["ctl"] = 1
        /\ freed["mixer_ctl"] = (IF cfg.mixer_device THEN 1 ELSE 0)
        /\ freed["write_buf"] = (IF write_buf # 0 THEN 1 ELSE 0)

\* C8 as stated: alsa_open returns failure and does not record the rate when
\* the device finally used has not accepted the requested rate.
C8_RateRejectedFailsOpen ==
    (pc = "open_ret" /\ aoOpens > 0 /\ hwp_rate = 0)
        => (aoResult # 0 /\ alsa_rate # current_sample_rate)

\* C9: alsa_open opens the device at most twice; the second open happens
\* only for a hw: device that rejected the rate, on the plughw: variant,
\* after the first handle was closed, and with resampling enabled; an open
\* that returns 0 leaves an open handle and has recorded the rate.
C9_PlugRetry ==
    /\ aoOpens <= 2
    /\ aoOpens = 2 => (cfg.device = "hw" /\ alsa_device = "plughw")
    /\ (pc = "ao_open" /\ aoOpens = 1) => (alsa_device = "plughw" /\ ~pcm_open)
    /\ (pc = "ao_rate" /\ alsa_device = "plughw") => hwp_resample
    /\ (pc = "ao_rate" /\ alsa_device = "hw") => (~hwp_resample /\ aoOpens = 1)
    /\ (pc = "open_ret" /\ aoResult = 0)
          => (pcmp = "H" /\ pcm_open /\ alsa_rate = current_sample_rate)

C9_Witness ==
    /\ pc = "open_ret" /\ aoResult = 0 /\ aoOpens = 2
    /\ alsa_device = "plughw" /\ hwp_resample /\ hwp_rate = current_sample_rate

\* C10: outside alsa_open, error_opening is set exactly when the last
\* alsa_open whose result the thread used returned an error; it is set with
\* the mutex held, and the thread is never past the open block while it is
\* set, so a failed open is followed by another open and a successful one
\* clears the flag before any query or transfer.
C10_ErrorOpening ==
    /\ ~InAlsaOpen => (error_opening <=> aoResult # 0)
    /\ pc = "open_fail_unlock" => (error_opening /\ mutex = "thread")
    /\ PastOpen => ~error_opening

C10_Witness == error_opening /\ pc = "open_lock" /\ running

\* C11: on a disconnect the thread closes the session (the step before
\* pcmp = NULL is the close); while probe_device is set the handle is NULL,
\* the PCM is closed, the thread is at the loop top, idle or probing, and the
\* only hardware call it makes is the probe; the step after a successful
\* probe is the open test with a NULL handle, which leads to alsa_open.
C11_DisconnectProbes ==
    /\ pc = "disc_null" => (hwcall = <<"output_thread", "snd_pcm_close">>
                              /\ ~pcm_open)
    /\ probe_device =>
          /\ pcmp = "NULL" /\ ~pcm_open
          /\ pc \in {"top", "off_sleep", "off_read", "off_chk", "probing",
                     "probe_sleep", "done"}
          /\ hwcall[1] \in {"none", "pcm_probe"}
    /\ (pc = "open_chk" /\ hwcall[1] = "pcm_probe")
          => (pcmp = "NULL" /\ ~probe_device)

C11_Witness ==
    pc = "open_chk" /\ hwcall[1] = "pcm_probe" /\ alsa_rate # 0 /\ running

\* C12 as stated: a call set_volume(0, 0) that has done its work has stored
\* gains 0 and 0 in software mode, and has passed the mixer's minimum dB
\* value to the mixer in hardware mode.
C12_ZeroIsMute ==
    (vpc = "sv_ret" /\ left = 0 /\ right = 0)
        => IF volume_mixer_name
           THEN mixer_db = <<mixer_mindb>>
           ELSE gainL = 0 /\ gainR = 0

\* C13 as stated: the table index computed by the bracket search of
\* set_volume (software curve mode and hardware bracket mode) is always
\* within 0 .. 100, and it is 0 for every volume above 65536.
C13_AboveMaxFirstBracket ==
    tbl_index # <<>> => /\ tbl_index[1] \in 0 .. 100
                        /\ left > gscale[1] => tbl_index[1] = 0

\* the gain of the corrected table for each volume of VolInputs within
\* 1 .. 65536
CurveGains ==
    [v \in {a[1] : a \in {b \in VolInputs : b[1] >= 1 /\ b[1] <= gscale[1]}}
        |-> gscalenew[FirstBelow(v)]]

\* C14: in software curve mode a call with left in 1 .. 65536 reads the
\* corrected table inside its bounds and stores that entry as both gains;
\* the table is non-increasing, and the stored gain is not below the gain
\* of any smaller volume in 1 .. 65536.
C14_CurveGainMonotone ==
    /\ \A i \in 1 .. 100 : gscalenew[i] >= gscalenew[i + 1]
    /\ (vpc = "sv_ret" /\ ~volume_mixer_name /\ linear_dB_internal
          /\ left >= 1 /\ left <= gscale[1])
        => /\ tbl_index # <<>> /\ tbl_index[1] \in 0 .. 100
           /\ gainL = gscalenew[tbl_index[1] + 1]
           /\ gainR = gainL
           /\ \A v \in DOMAIN CurveGains : v <= left => CurveGains[v] <= gainL
           /\ \A v \in DOMAIN CurveGains : v >= left => CurveGains[v] >= gainL

C14_Witness ==
    /\ vpc = "sv_ret" /\ ~volume_mixer_name /\ linear_dB_internal
    /\ left = 2051 /\ gainL = 74 /\ gainR = 74 /\ mixer_failed = 0

\* C15 as stated: every value passed to the hardware mixer lies within the
\* range [mixer_mindb, mixer_maxdb] queried from it.
C15_MixerDbInRange ==
    mixer_db # <<>> => (mixer_mindb <= mixer_db[1] /\ mixer_db[1] <= mixer_maxdb)

\* C16: when mixer_init_alsa has failed (at any of its six steps),
\* output_init_alsa goes on to start the thread with volume_mixer_name and
\* mixer_handle NULL; set_volume then never reaches the dB conversion or
\* set_mixer, no value is ever passed to the mixer, and a call that has done
\* its work has stored its l and r as the gains.
C16_MixerFailureFallsBack ==
    mixer_failed # 0 =>
        /\ ipc \in {"unmute", "start", "done"}
        /\ ~volume_mixer_name /\ mixer_handle = "NULL"
        /\ mixer_by = "none" /\ mixer_db = <<>>
        /\ vpc \notin {"sv_db", "sv_mixer"}
        /\ vpc = "sv_ret" => (gainL = sv_l /\ gainR = sv_r /\ gainL_by = vcall
                               /\ gainR_by = vcall)

C16_Witness ==
    /\ mixer_failed = 6 /\ ipc = "done" /\ vpc = "sv_ret"
    /\ left = FIXED_ONE /\ gainL = FIXED_ONE /\ mixer_linear

\* C17: set_volume writes output.gainL and output.gainR while it holds the
\* output mutex, so whenever set_volume does not hold the mutex (and so
\* whenever the output thread holds it) both gains come from the same call
C17_GainPairNotTorn ==
    /\ vpc \in {"sv_gainL", "sv_gainR", "sv_unlock"} => mutex = "volume"
    /\ mutex # "volume" => (gainL_by = gainR_by /\ gainL = gainR)

\* the thread holds the mutex after a completed call while the next call
\* waits for the mutex
C17_Witness ==
    /\ mutex = "thread"
    /\ pc = "of_ret"
    /\ vpc = "sv_lock"
    /\ gainL = FIXED_ONE
    /\ gainL_by # vcall

\* C18: whenever the next step of the output thread reads or writes
\* output.state, output.current_sample_rate, output.error_opening or
\* output.device_frames the thread holds the output mutex, and whenever the
\* next step of set_volume writes a gain set_volume holds it
C18_SharedAccessUnderMutex ==
    /\ pc \in {"off_read", "open_ret", "off_test", "q_delay"} => mutex = "thread"
    /\ (pc = "open_chk" /\ pcmp # "NULL") => mutex = "thread"
    /\ vpc \in {"sv_gainL", "sv_gainR"} => mutex = "volume"

\* C19: when snd_pcm_mmap_commit or snd_pcm_writei accepted a count of
\* frames that is not negative, _write_frames returns exactly that count, in
\* both transfer modes
C19_ShortWriteReturnsCount ==
    (/\ pc = "of_ret"
     /\ hwcall \in {<<"_write_frames", "snd_pcm_mmap_commit">>,
                    <<"_write_frames", "snd_pcm_writei">>}
     /\ w_frames >= 0)
    => wres = w_frames

\* _write_frames has called snd_pcm_recover since it was entered: the call
\* is the last one it made, or it was followed by the close of the session
WriteRecovered ==
    \/ hwcall = <<"_write_frames", "snd_pcm_recover">>
    \/ hwcall = NoHw /\ pcmp = "NULL"

\* C20 as stated: every failure _write_frames returns after an error of
\* snd_pcm_mmap_begin, snd_pcm_mmap_commit or snd_pcm_writei comes after a
\* call of snd_pcm_recover, in both transfer modes
C20_EveryFailureRecovers ==
    (/\ pc = "of_ret"
     /\ wres < 0
     /\ ~(hwcall = <<"_write_frames", "snd_pcm_mmap_commit">> /\ w_frames >= 0))
    => WriteRecovered

\* C20 amended: snd_pcm_recover is called only after snd_pcm_writei returned
\* an error; a failure returned in copy mode comes after that call, a
\* failure returned in memory-mapped mode comes straight from
\* snd_pcm_mmap_begin or snd_pcm_mmap_commit
C20_RecoveryOnlyInCopyMode ==
    /\ pc = "w_recover"
       => /\ ~alsa_mmap
          /\ hwcall = <<"_write_frames", "snd_pcm_writei">>
          /\ w_frames < 0
    /\ (pc = "of_ret" /\ wres < 0 /\ ~alsa_mmap) => WriteRecovered
    /\ (pc = "of_ret" /\ wres < 0 /\ alsa_mmap)
       => hwcall \in {<<"_write_frames", "snd_pcm_mmap_begin">>,
                      <<"_write_frames", "snd_pcm_mmap_commit">>}

\* a failed snd_pcm_mmap_commit returned to the caller
C20_Witness ==
    /\ pc = "of_ret"
    /\ alsa_mmap
    /\ wres = -1
    /\ w_frames = -1
    /\ hwcall = <<"_write_frames", "snd_pcm_mmap_commit">>

\* the thresholds T for which every buffer value below T is requested as a
\* time in microseconds and every value from T on as a size in frames, and
\* the same for the period count and the period size
BufferThresholds ==
    {T \in 41 .. 4096 :
        \A b \in BufferInputs :
           /\ b < T => BufferRequest(b) = <<"snd_pcm_hw_params_set_buffer_time_near", b * 1000>>
           /\ b >= T => BufferRequest(b) = <<"snd_pcm_hw_params_set_buffer_size_near", b>>}
PeriodThresholds ==
    {T \in 0 .. 1024 :
        \A p \in PeriodInputs :
           /\ p < T => PeriodRequest(p) = <<"snd_pcm_hw_params_set_periods_near", p>>
           /\ p >= T => PeriodRequest(p) = <<"snd_pcm_hw_params_set_period_size_near", p>>}

UsingSession == pc \in {"q_state", "xrun_recover", "susp_recover", "disc_close",
                        "q_avail", "avail_recover", "avail_chk", "do_start",
                        "start_recover", "do_wait", "wait_recover", "xfer_lock",
                        "off_test", "off_close", "q_delay", "of_start", "of_loop",
                        "w_begin", "w_commit", "w_recover", "w_close"}

SessionAsRequested ==
    /\ UsingSession
       => (pcmp # "NULL" /\ pcm_open /\ ~error_opening /\ alsa_rate \in Rates)
    /\ pc = "open_ok_unlock"
       => (alsa_rate = current_sample_rate /\ pcmp # "NULL" /\ pcm_open)
    /\ (pc \in {"ao_reset", "ao_open"} /\ aoOpens = 0) => ~pcm_open

OpenCheckDecides ==
    /\ (pc = "open_chk" /\ pc' = "q_state")
       => (pcmp # "NULL" /\ alsa_rate = current_sample_rate)
    /\ (pc = "open_chk" /\ pc' # pc /\ alsa_rate # current_sample_rate)
       => pc' = "open_lock"

C23_TransferCountBounded ==
    LET limit == IF alsa_mmap THEN alsa_buffer_size ELSE alsa_period_size
    IN  /\ pc \in {"xfer_lock", "off_test", "q_delay", "of_start"}
           => (avail >= 1 /\ avail <= limit)
        /\ pc = "of_loop" => (of_size >= 0 /\ of_size + of_wrote <= limit)
        /\ pc = "w_begin" => (out_frames >= 1 /\ out_frames <= limit)

\* the driver reported more than a period in copy mode and the thread is
\* about to transfer one period
C23_Witness ==
    /\ pc = "of_start"
    /\ ~alsa_mmap
    /\ avail = alsa_period_size
    /\ avail < MaxAvail
    /\ hwcall = <<"output_thread", "snd_pcm_delay">>

\* C24: with no sample format configured, every alsa_open that reaches the
\* format step selects the first format of fmts[] the device accepts in
\* that open, and fails there only when the device accepts none
C24_NegotiatesFirstAccepted ==
    hwcall = <<"alsa_open", "snd_pcm_hw_params_set_format">>
    => IF FirstFmt(dev_fmts, 1) = "0"
       THEN pc = "open_ret" /\ aoResult = -1
       ELSE pc = "ao_sizes" /\ alsa_format = FirstFmt(dev_fmts, 1)

\* C25: with memory-mapped transfer configured, every alsa_open that gets
\* past the access step uses memory-mapped access exactly when the device
\* accepts it in that open
C25_MmapWheneverAccepted ==
    (hwcall = <<"alsa_open", "snd_pcm_hw_params_set_access">> /\ pc = "ao_format")
    => (alsa_mmap <=> dev_mmap)

\* C29: in copy mode with a format other than NATIVE_FORMAT, the count of
\* frames _write_frames packs into alsa.write_buf is at most the count of
\* frames the buffer was allocated for
C29_WriteBufHoldsFrames ==
    (pc = "w_begin" /\ ~alsa_mmap /\ alsa_format # NATIVE_FORMAT)
    => out_frames <= write_buf

\* snd_pcm_start is about to be called, or was the last call, only in
\* memory-mapped mode with start set and less than a period available;
\* snd_pcm_wait is about to be called only with start cleared
StartOnlyWhenPending ==
    /\ pc = "do_start" => (alsa_mmap /\ start /\ avail < alsa_period_size)
    /\ hwcall = <<"output_thread", "snd_pcm_start">> => alsa_mmap
    /\ pc = "do_wait" => (~start /\ avail < alsa_period_size)

\* a successful snd_pcm_start clears start; with start cleared and less than
\* a period available the thread goes to snd_pcm_wait; start is cleared only
\* by a successful snd_pcm_start or, in copy mode, without a call; start is
\* set only after a successful alsa_open, an XRUN recovery, an error of
\* snd_pcm_avail_update or a failed or timed-out snd_pcm_wait
StartFlagSteps ==
    /\ (pc = "do_start" /\ pc' = "top") => ~start'
    /\ (pc = "avail_chk" /\ pc' # pc /\ ~start /\ avail < alsa_period_size)
       => pc' = "do_wait"
    /\ (start /\ ~start')
       => \/ pc = "do_start" /\ pc' = "top"
          \/ pc = "avail_chk" /\ ~alsa_mmap
    /\ (~start /\ start')
       => \/ pc = "open_ret" /\ aoResult = 0
          \/ pc \in {"xrun_recover", "avail_recover", "wait_recover"}

\* C26: snd_pcm_start is issued only in memory-mapped mode, only while start
\* is set and less than a period is available; a successful start clears
\* start, after which the thread calls snd_pcm_wait instead; start is set
\* again only by a successful open, an XRUN recovery, an error of the avail
\* query or a failed or timed-out wait
C26_StartCommand == []StartOnlyWhenPending /\ [][StartFlagSteps]_vars

\* memory-mapped mode after a successful start: the thread is about to wait
C26_Witness ==
    /\ pc = "do_wait"
    /\ alsa_mmap
    /\ ~start
    /\ avail < alsa_period_size

\* C28: every call on the session handle is made while the handle is open:
\* at the positions whose next step calls snd_pcm_state, avail_update,
\* start, wait, delay, recover, mmap_begin, mmap_commit, writei or close on
\* pcmp, and at the alsa_close of alsa_open, the handle is open; between
\* iterations pcmp is non-NULL only while the handle is open
C28_HandleOpenWhenUsed ==
    /\ (UsingSession \/ InWrite) => (pcmp # "NULL" /\ pcm_open)
    /\ (pc = "ao_start" /\ pcmp # "NULL") => pcm_open
    /\ (pc \in {"top", "open_chk", "open_lock"} /\ pcmp # "NULL") => pcm_open

\* C27: when test_open has returned, the device it opened is closed; with
\* rates given by the user the array is as the caller passed it; otherwise,
\* once the candidates were tried, the array begins with exactly the
\* candidates the device supports, in candidate order, followed by the
\* zeros it held
C27_TestOpenLeavesClosed ==
    tpc = "t_ret" =>
        /\ ~test_pcm
        /\ userdef_rates => rates = UserRates
        /\ (~userdef_rates /\ test_i > 0) =>
               /\ SubSeq(rates, 1, test_ind - 1) = SupportedFrom(1)
               /\ \A k \in test_ind .. Len(rates) : rates[k] = 0

\* the positions of the thread between a LOCK and the UNLOCK that follows it
ThreadHolds ==
    pc \in {"off_read", "open_fail_unlock", "open_ok_unlock", "off_test",
            "q_delay", "delay_unlock", "of_start", "of_loop", "of_ret",
            "xfer_unlock", "w_close", "w_null"}
    \/ InAlsaOpen \/ InWrite

\* a step of the thread changes the owner of the mutex only by a LOCK taken
\* while nobody holds it or by an UNLOCK of the mutex it holds
LockSteps ==
    /\ (mutex # "thread" /\ mutex' = "thread")
          => (mutex = "none" /\ pc \in {"off_sleep", "open_lock", "xfer_lock"})
    /\ (mutex = "thread" /\ mutex' # "thread")
          => /\ mutex' = "none"
             /\ pc \in {"off_read", "open_fail_unlock", "open_ok_unlock",
                        "off_test", "delay_unlock", "xfer_unlock"}
             /\ ~ThreadHolds'

\* C30: the thread holds the mutex exactly between a LOCK and the UNLOCK
\* that follows it, so never where it sleeps, waits, continues or locks
\* again and always where it unlocks; each change of owner is one LOCK of a
\* free mutex or one UNLOCK of a held one; and a mutex held by the thread is
\* always eventually free again for set_volume and output_close_alsa
C30_LockPairing ==
    /\ [](mutex = "thread" <=> ThreadHolds)
    /\ [][LockSteps]_vars
    /\ (mutex = "thread") ~> (mutex = "none")

C30_Witness ==
    /\ pc = "top"
    /\ xfer_iter
    /\ mutex = "none"
    /\ hwcall = NoHw
    /\ pcm_open
    /\ recover_count > 0

====
